---- MODULE Spec2Model ----
(***************************************************************************)
(* Campfire Connections "core" app: the role-based menu resolver           *)
(* (menu_registry.py), the dashboard widget composition (views/base.py,    *)
(* widgets.py, models/dashboard.py), the navigation preferences            *)
(* (models/navigation.py), the context processors (context_processors.py), *)
(* the scoped view mixins (mixins/views.py), the seed command              *)
(* (management/commands/seed_test_data.py) and the cache helper (cache.py).*)
(*                                                                         *)
(* Each entry point has its own specification: its Init draws the inputs   *)
(* of the calls (the user, the favourites, the URLconf; the view and the   *)
(* stored layout; the stored rows ...) and its actions run the whole       *)
(* functions on them.  phase tells which entry point a behaviour           *)
(* exercises; the variables of the other entry points stay idle.           *)
(***************************************************************************)
EXTENDS Integers, Sequences, FiniteSets, TLC

VARIABLES
    phase,          \* which entry point this behaviour exercises
    user,           \* the user object handed to build_menu_for_user
    favorites,      \* the favorites argument (a list of keys, or None)
    urlconf,        \* the project's URLconf: url_name -> kwarg names of the route
    menu_result,    \* what build_menu_for_user returned (or raised)
    view,           \* the dashboard view object (class attributes, request user)
    layouts,        \* the DashboardLayout table
    uuid_seed,      \* the randomness uuid4() draws on during one build
    widgets_result, \* what build_widgets returned (or raised)
    favorite_keys,  \* NavigationPreference instance: its favorite_keys field
    nav_row,        \* the persisted favorite_keys column of that row
    nav_last,       \* the last NavigationPreference call and the one before it
    request,        \* the request a context processor gets: its user and session
    enrollments,    \* the ActiveEnrollment table
    organizations,  \* the Organization table
    context,        \* which context processor ran and what it returned (or raised)
    scoped_view,    \* a view with a scoped mixin: kwargs, request user, base queryset
    scoped_result,  \* what its get_queryset returned (or raised)
    seed_db,        \* the committed database the seed command runs against
    seed_tx,        \* the open transaction's view of the database, or None
    seed_pc,        \* where Command.handle is: start, a step of build, ...
    seed_stdout,    \* the lines written to the command's stdout
    seed_before,    \* the database as it was when the command started
    cache,          \* the cache service: the entry under the one key, or None
    now,            \* the cache service's clock
    ttl,            \* the ttl the callers pass to cached
    calls,          \* per request: where its call of cached is, and its locals
    stores,         \* the cache.set calls on the key so far, in order
    call,           \* a call of one of the helper functions: its name and arguments
    returned,       \* what that call returned (or raised)
    role_menus,     \* the module-level role menus of core.menus, as the requests so far left them
    menu_user,      \* the user of the last request dynamic_menu served
    menu_items,     \* what dynamic_menu returned for that request
    served,         \* how many requests dynamic_menu has served
    pref_row,       \* the favorite_keys column of the user's NavigationPreference row
    toggles,        \* per request: its key, where it is, and the favorite_keys of the instance it loaded
    view_self,      \* the view instance handling the request: its class, configuration and request
    flashes,        \* the flash messages added to the request(s), in order
    writes,         \* the saves and deletes carried out, in order
    view_session,   \* request.session of the session the submissions belong to
    view_response,  \* the response of the last request (or the exception that left the view)
    handled         \* how many submissions the session has made

menu_vars == <<user, favorites, urlconf, menu_result>>
dash_vars == <<view, layouts, uuid_seed, widgets_result>>
nav_vars == <<favorite_keys, nav_row, nav_last>>
ctx_vars == <<request, enrollments, organizations, context>>
scoped_vars == <<scoped_view, scoped_result>>
seed_vars == <<seed_db, seed_tx, seed_pc, seed_stdout, seed_before>>
cache_vars == <<cache, now, ttl, calls, stores>>

call_vars == <<call, returned>>

dynamic_menu_vars == <<role_menus, menu_user, menu_items, served>>

toggle_vars == <<pref_row, toggles>>

view_vars == <<view_self, flashes, writes, view_session, view_response, handled>>

vars == <<phase, menu_vars, dash_vars, nav_vars, ctx_vars, scoped_vars, seed_vars,
          cache_vars,
          call_vars,
          dynamic_menu_vars,
          toggle_vars,
          view_vars>>

---------------------------------------------------------------------------
(* Python values.  Every value carries its type tag in t.                  *)

NoneV == [t |-> "None"]
Str(s) == [t |-> "str", v |-> s]
Bool(b) == [t |-> "bool", v |-> b]
PyInt(n) == [t |-> "int", v |-> n]
List(s) == [t |-> "list", v |-> s]
Class(name) == [t |-> "class", name |-> name]
Obj(attrs) == [t |-> "obj", a |-> attrs]
Dict(items) == [t |-> "dict", a |-> items]
Raised(exc) == [t |-> "raise", exc |-> exc]
Pending == [t |-> "pending"]
EmptyDict == [k \in {} |-> NoneV]

\* bool(value)
Truthy(value) ==
    CASE value.t = "None" -> FALSE
      [] value.t = "bool" -> value.v
      [] value.t = "str" -> value.v # ""
      [] value.t = "int" -> value.v # 0
      [] value.t = "list" -> value.v # <<>>
      [] OTHER -> TRUE

\* getattr(value, attr, default)
getattr(value, attr, default) ==
    IF value.t = "obj" /\ attr \in DOMAIN value.a THEN value.a[attr] ELSE default

\* d.get(k, default) on a Python dict held as a function
dget(d, k, default) == IF k \in DOMAIN d THEN d[k] ELSE default

\* str.upper() on the strings a user_type takes here
upper(s) ==
    CASE s = "leader" -> "LEADER"
      [] s = "other" -> "OTHER"
      [] OTHER -> s

---------------------------------------------------------------------------
(* Entry points.  A behaviour exercises one of them; the variables of the  *)
(* others hold their idle values and never change.                         *)

IdleExcept(p) ==
    /\ IF p = "menu" THEN TRUE
       ELSE /\ user = NoneV
            /\ favorites = NoneV
            /\ urlconf = EmptyDict
            /\ menu_result = Pending
    /\ IF p = "dashboard" THEN TRUE
       ELSE /\ view = NoneV
            /\ layouts = {}
            /\ uuid_seed = ""
            /\ widgets_result = Pending
    /\ IF p = "navigation" THEN TRUE
       ELSE /\ favorite_keys = NoneV
            /\ nav_row = NoneV
            /\ nav_last = NoneV
    /\ IF p = "context" THEN TRUE
       ELSE /\ request = NoneV
            /\ enrollments = {}
            /\ organizations = {}
            /\ context = Pending
    /\ IF p = "scoped" THEN TRUE
       ELSE /\ scoped_view = NoneV
            /\ scoped_result = Pending
    /\ IF p = "seed" THEN TRUE
       ELSE /\ seed_db = NoneV
            /\ seed_tx = NoneV
            /\ seed_pc = NoneV
            /\ seed_stdout = <<>>
            /\ seed_before = NoneV
    /\ IF p = "cache" THEN TRUE
       ELSE /\ cache = NoneV
            /\ now = 0
            /\ ttl = 0
            /\ calls = <<>>
            /\ stores = <<>>
    /\ IF p = "call" THEN TRUE
       ELSE /\ call = NoneV
            /\ returned = Pending
    /\ IF p = "dynamic_menu" THEN TRUE
       ELSE /\ role_menus = EmptyDict
            /\ menu_user = NoneV
            /\ menu_items = Pending
            /\ served = 0
    /\ IF p = "toggle" THEN TRUE
       ELSE /\ pref_row = NoneV
            /\ toggles = <<>>
    /\ IF p = "view" THEN TRUE
       ELSE /\ view_self = NoneV
            /\ flashes = <<>>
            /\ writes = <<>>
            /\ view_session = EmptyDict
            /\ view_response = Pending
            /\ handled = 0

Frame(p) ==
    /\ IF p = "menu" THEN TRUE ELSE UNCHANGED menu_vars
    /\ IF p = "dashboard" THEN TRUE ELSE UNCHANGED dash_vars
    /\ IF p = "navigation" THEN TRUE ELSE UNCHANGED nav_vars
    /\ IF p = "context" THEN TRUE ELSE UNCHANGED ctx_vars
    /\ IF p = "scoped" THEN TRUE ELSE UNCHANGED scoped_vars
    /\ IF p = "seed" THEN TRUE ELSE UNCHANGED seed_vars
    /\ IF p = "cache" THEN TRUE ELSE UNCHANGED cache_vars
    /\ IF p = "call" THEN TRUE ELSE UNCHANGED call_vars
    /\ IF p = "dynamic_menu" THEN TRUE ELSE UNCHANGED dynamic_menu_vars
    /\ IF p = "toggle" THEN TRUE ELSE UNCHANGED toggle_vars
    /\ IF p = "view" THEN TRUE ELSE UNCHANGED view_vars

---------------------------------------------------------------------------
(* menu_registry.py                                                        *)

user_is_admin(u) == getattr(u, "is_admin", Bool(FALSE))

\* the callables a definition's "condition" may name
call_condition(condition, u) ==
    CASE condition = "user_is_admin" -> user_is_admin(u)
      [] OTHER -> Bool(TRUE)

RECURSIVE resolve_hops(_, _)
\* the for loop of resolve_context over dotted_path.split(".")
resolve_hops(value, attrs) ==
    IF attrs = <<>> THEN value
    ELSE IF value = NoneV THEN NoneV
    ELSE LET nxt == IF value.t = "dict"
                    THEN dget(value.a, Head(attrs), NoneV)
                    ELSE getattr(value, Head(attrs), NoneV)
         IN resolve_hops(nxt, Tail(attrs))

\* dotted_path is held split: "profile.faction.slug" is <<"profile","faction","slug">>
resolve_context(base_context, dotted_path) ==
    IF dotted_path = <<>> THEN NoneV ELSE resolve_hops(base_context, dotted_path)

MENU_REGISTRY ==
    [COMMON |-> <<
        [key |-> "dashboard", label |-> "Dashboard", icon |-> "fas fa-fire",
         url_name |-> "dashboard"] >>,
     ATTENDEE |-> <<
        [key |-> "attendee_portal", label |-> "My Profile", icon |-> "fas fa-user",
         children |-> <<
            [key |-> "attendee_schedule", label |-> "My Schedule",
             icon |-> "fas fa-calendar", url_name |-> "attendees:enrollments:index",
             dynamic_kwargs |-> [slug |-> <<"profile", "slug">>]],
            [key |-> "attendee_enrollments", label |-> "My Enrollments",
             icon |-> "fas fa-user-check", url_name |-> "attendees:enrollments:index",
             dynamic_kwargs |-> [slug |-> <<"profile", "slug">>]],
            [key |-> "attendee_resources", label |-> "Resources",
             icon |-> "fas fa-book", url_name |-> "resources"] >>],
        [key |-> "attendee_quick", label |-> "My Schedule", icon |-> "fas fa-calendar",
         url_name |-> "attendees:enrollments:index",
         dynamic_kwargs |-> [slug |-> <<"profile", "slug">>], group |-> "quick"] >>,
     LEADER |-> <<
        [key |-> "leader_portal", label |-> "Faction Mgmt", icon |-> "fas fa-users",
         children |-> <<
            [key |-> "leader_roster", label |-> "View Roster", icon |-> "fas fa-users",
             url_name |-> "leaders:index"],
            [key |-> "leader_enrollments", label |-> "Manage Enrollments",
             icon |-> "fas fa-calendar-alt", url_name |-> "factions:enrollments:index",
             dynamic_kwargs |-> [slug |-> <<"profile", "faction", "slug">>]],
            [key |-> "leader_resources", label |-> "Faction Resources",
             icon |-> "fas fa-book", url_name |-> "resources"] >>],
        [key |-> "leader_quick", label |-> "Faction Dashboard",
         icon |-> "fas fa-bullseye", url_name |-> "leaders:dashboard",
         group |-> "quick"] >>,
     FACULTY |-> <<
        [key |-> "faculty_portal", label |-> "Faculty Portal",
         icon |-> "fas fa-chalkboard-teacher",
         children |-> <<
            [key |-> "faculty_schedule", label |-> "My Schedule",
             icon |-> "fas fa-calendar", url_name |-> "facultys:manage"],
            [key |-> "faculty_enrollments", label |-> "My Enrollments",
             icon |-> "fas fa-user-check", url_name |-> "facultys:manage"] >>],
        [key |-> "faculty_admin", label |-> "Faculty Admin", icon |-> "fas fa-user-cog",
         condition |-> "user_is_admin",
         children |-> <<
            [key |-> "faculty_new", label |-> "New Faculty",
             icon |-> "fas fa-plus-square", url_name |-> "facilities:facultys:new",
             dynamic_kwargs |-> [facility_slug |-> <<"profile", "facility", "slug">>]],
            [key |-> "faculty_manage", label |-> "Manage Faculty",
             icon |-> "fas fa-users-cog", url_name |-> "facilities:faculty:manage",
             dynamic_kwargs |-> [facility_slug |-> <<"profile", "facility", "slug">>]],
            [key |-> "faculty_reports", label |-> "Reports",
             icon |-> "fas fa-chart-bar", url_name |-> "reports:list_user_reports"] >>],
        [key |-> "faculty_quick", label |-> "Faculty Dashboard",
         icon |-> "fas fa-graduation-cap", url_name |-> "facultys:manage",
         group |-> "quick"] >>,
     ADMIN |-> <<
        [key |-> "admin_tools", label |-> "Admin Tools", icon |-> "fas fa-tools",
         children |-> <<
            [key |-> "admin_site", label |-> "Django Admin",
             icon |-> "fas fa-shield-alt", url_name |-> "admin:index"],
            [key |-> "admin_users", label |-> "User Management",
             icon |-> "fas fa-users-cog", url_name |-> "leaders:index"] >>],
        [key |-> "admin_quick", label |-> "Admin Site", icon |-> "fas fa-lock",
         url_name |-> "admin:index", group |-> "quick"] >>,
     \* MENU_REGISTRY["ORGANIZATION_FACULTY"] = MENU_REGISTRY["FACULTY"]
     ORGANIZATION_FACULTY |-> <<
        [key |-> "faculty_portal", label |-> "Faculty Portal",
         icon |-> "fas fa-chalkboard-teacher",
         children |-> <<
            [key |-> "faculty_schedule", label |-> "My Schedule",
             icon |-> "fas fa-calendar", url_name |-> "facultys:manage"],
            [key |-> "faculty_enrollments", label |-> "My Enrollments",
             icon |-> "fas fa-user-check", url_name |-> "facultys:manage"] >>],
        [key |-> "faculty_admin", label |-> "Faculty Admin", icon |-> "fas fa-user-cog",
         condition |-> "user_is_admin",
         children |-> <<
            [key |-> "faculty_new", label |-> "New Faculty",
             icon |-> "fas fa-plus-square", url_name |-> "facilities:facultys:new",
             dynamic_kwargs |-> [facility_slug |-> <<"profile", "facility", "slug">>]],
            [key |-> "faculty_manage", label |-> "Manage Faculty",
             icon |-> "fas fa-users-cog", url_name |-> "facilities:faculty:manage",
             dynamic_kwargs |-> [facility_slug |-> <<"profile", "facility", "slug">>]],
            [key |-> "faculty_reports", label |-> "Reports",
             icon |-> "fas fa-chart-bar", url_name |-> "reports:list_user_reports"] >>],
        [key |-> "faculty_quick", label |-> "Faculty Dashboard",
         icon |-> "fas fa-graduation-cap", url_name |-> "facultys:manage",
         group |-> "quick"] >>]

\* django.urls.reverse against the project's URLconf: the route must be
\* registered and the kwargs must be exactly the route's parameters.
reverse(url_name, kwargs) ==
    IF url_name \in DOMAIN urlconf /\ DOMAIN kwargs = urlconf[url_name]
    THEN [t |-> "url", name |-> url_name, kwargs |-> kwargs]
    ELSE Raised("NoReverseMatch")

\* the kwargs of resolve_url after the None values are dropped
url_kwargs(definition, base_context) ==
    LET dynamic_kwargs == dget(definition, "dynamic_kwargs", EmptyDict)
        kwargs == [k \in DOMAIN dynamic_kwargs |->
                      resolve_context(base_context, dynamic_kwargs[k])]
    IN [k \in {x \in DOMAIN kwargs : kwargs[x] # NoneV} |-> kwargs[k]]

\* resolve_url without the filter that drops the None kwargs
resolve_url_keeps_none(definition, base_context) ==
    LET url_name == dget(definition, "url_name", "")
        dynamic_kwargs == dget(definition, "dynamic_kwargs", EmptyDict)
        kwargs == [k \in DOMAIN dynamic_kwargs |->
                      resolve_context(base_context, dynamic_kwargs[k])]
        r == reverse(url_name, kwargs)
    IN IF url_name = "" THEN NoneV
       ELSE IF r.t = "raise" /\ r.exc = "NoReverseMatch" THEN NoneV
       ELSE r

\* resolve_url without the except NoReverseMatch clause
resolve_url_uncaught(definition, base_context) ==
    LET url_name == dget(definition, "url_name", "")
        kwargs == url_kwargs(definition, base_context)
    IN IF url_name = "" THEN NoneV ELSE reverse(url_name, kwargs)

resolve_url(definition, base_context) ==
    LET url_name == dget(definition, "url_name", "")
        kwargs == url_kwargs(definition, base_context)
        r == IF DOMAIN kwargs # {}
             THEN reverse(url_name, kwargs)
             ELSE reverse(url_name, EmptyDict)
    IN IF url_name = "" THEN NoneV
       ELSE IF r.t = "raise" /\ r.exc = "NoReverseMatch" THEN NoneV
       ELSE r

RECURSIVE resolve_entry(_, _)
RECURSIVE resolve_children(_, _)

\* resolve_entry without the condition check
resolve_entry_ignores_condition(definition, base_context) ==
    [key |-> dget(definition, "key", NoneV),
     label |-> dget(definition, "label", NoneV),
     icon |-> dget(definition, "icon", NoneV),
     url |-> resolve_url(definition, base_context),
     children |-> resolve_children(dget(definition, "children", <<>>), base_context)]

\* the loop of resolve_entry over definition.get("children", [])
resolve_children(child_defs, base_context) ==
    IF child_defs = <<>> THEN <<>>
    ELSE LET child_entry == resolve_entry(Head(child_defs), base_context)
         IN (IF child_entry = NoneV THEN <<>> ELSE <<child_entry>>)
            \o resolve_children(Tail(child_defs), base_context)

resolve_entry(definition, base_context) ==
    LET condition == dget(definition, "condition", "")
    IN IF condition # ""
          /\ ~Truthy(call_condition(condition, base_context.a["user"]))
       THEN NoneV
       ELSE [key |-> dget(definition, "key", NoneV),
             label |-> dget(definition, "label", NoneV),
             icon |-> dget(definition, "icon", NoneV),
             url |-> resolve_url(definition, base_context),
             children |-> resolve_children(dget(definition, "children", <<>>),
                                           base_context)]

\* a raised AttributeError stands for None.upper()
\* entries from every role of the registry
get_menu_definitions_every_role(u) ==
    LET ut == getattr(u, "user_type", Str("other"))
    IN IF ut.t # "str" THEN Raised("AttributeError")
       ELSE MENU_REGISTRY["COMMON"] \o MENU_REGISTRY["LEADER"]
            \o MENU_REGISTRY["FACULTY"]

get_menu_definitions(u) ==
    LET ut == getattr(u, "user_type", Str("other"))
    IN IF ut.t # "str" THEN Raised("AttributeError")
       ELSE dget(MENU_REGISTRY, "COMMON", <<>>)
            \o dget(MENU_REGISTRY, upper(ut.v), <<>>)

clone_entry(entry) ==
    [key |-> entry.key, label |-> entry.label, icon |-> entry.icon,
     url |-> entry.url, children |-> entry.children]

RECURSIVE flatten_definitions(_)
RECURSIVE flatten_loop(_, _)
RECURSIVE flatten_children(_, _)

\* for child in definition.get("children", []): flat.update(flatten_definitions([child]))
flatten_children(children, flat) ==
    IF children = <<>> THEN flat
    ELSE flatten_children(Tail(children),
                          flatten_definitions(<<Head(children)>>) @@ flat)

\* flat[key] = definition only for a key not yet in flat
flatten_loop_first_wins(definitions, flat) ==
    IF definitions = <<>> THEN flat
    ELSE LET definition == Head(definitions)
             key == dget(definition, "key", "")
             flat1 == IF key # "" THEN flat @@ (key :> definition) ELSE flat
         IN flatten_loop(Tail(definitions),
                         flatten_children(dget(definition, "children", <<>>), flat1))

\* for definition in definitions: ... with flat as built so far
flatten_loop(definitions, flat) ==
    IF definitions = <<>> THEN flat
    ELSE LET definition == Head(definitions)
             key == dget(definition, "key", "")
             flat1 == IF key # "" THEN (key :> definition) @@ flat ELSE flat
         IN flatten_loop(Tail(definitions),
                         flatten_children(dget(definition, "children", <<>>), flat1))

flatten_definitions(definitions) == flatten_loop(definitions, EmptyDict)

RECURSIVE static_loop(_, _, _)
\* the first loop with the group test dropped: every entry goes to primary
static_loop_all_primary(definitions, base_context, acc) ==
    IF definitions = <<>> THEN acc
    ELSE LET entry == resolve_entry(Head(definitions), base_context)
             nxt == IF entry = NoneV THEN acc
                    ELSE [acc EXCEPT !.primary = Append(@, entry)]
         IN static_loop(Tail(definitions), base_context, nxt)

\* the first loop of build_menu_for_user; acc is (primary, quick, quick_keys)
static_loop(definitions, base_context, acc) ==
    IF definitions = <<>> THEN acc
    ELSE LET definition == Head(definitions)
             entry == resolve_entry(definition, base_context)
             nxt == IF entry = NoneV THEN acc
                    ELSE IF dget(definition, "group", "") = "quick"
                    THEN [acc EXCEPT
                            !.quick = Append(@, entry),
                            !.quick_keys = IF dget(definition, "key", "") # ""
                                           THEN @ \cup {entry.key} ELSE @]
                    ELSE [acc EXCEPT !.primary = Append(@, entry)]
         IN static_loop(Tail(definitions), base_context, nxt)

RECURSIVE favorites_loop(_, _, _, _)
\* the second loop appending the resolved entry itself, without the favorite marker
favorites_loop_unmarked(favs, flat_defs, base_context, acc) ==
    IF favs = <<>> THEN acc
    ELSE LET key == Head(favs)
             definition == dget(flat_defs, key, NoneV)
             entry == resolve_entry(definition, base_context)
             nxt == IF key \in acc.quick_keys THEN acc
                    ELSE IF definition = NoneV THEN acc
                    ELSE IF entry # NoneV /\ Truthy(entry.url)
                    THEN [acc EXCEPT !.quick = Append(@, entry),
                                     !.quick_keys = @ \cup {key}]
                    ELSE acc
         IN favorites_loop(Tail(favs), flat_defs, base_context, nxt)

\* the second loop with a stub in place of the skip for a key not in the index
favorites_loop_stub(favs, flat_defs, base_context, acc) ==
    IF favs = <<>> THEN acc
    ELSE LET key == Head(favs)
             definition == dget(flat_defs, key, NoneV)
             entry == resolve_entry(definition, base_context)
             stub == [key |-> key, label |-> key, icon |-> NoneV, url |-> NoneV,
                      children |-> <<>>, favorite |-> TRUE]
             nxt == IF key \in acc.quick_keys THEN acc
                    ELSE IF definition = NoneV
                    THEN [acc EXCEPT !.quick = Append(@, stub),
                                     !.quick_keys = @ \cup {key}]
                    ELSE IF entry # NoneV /\ Truthy(entry.url)
                    THEN [acc EXCEPT
                            !.quick = Append(@, clone_entry(entry) @@ [favorite |-> TRUE]),
                            !.quick_keys = @ \cup {key}]
                    ELSE acc
         IN favorites_loop(Tail(favs), flat_defs, base_context, nxt)

\* the second loop of build_menu_for_user
favorites_loop(favs, flat_defs, base_context, acc) ==
    IF favs = <<>> THEN acc
    ELSE LET key == Head(favs)
             definition == dget(flat_defs, key, NoneV)
             entry == resolve_entry(definition, base_context)
             nxt == IF key \in acc.quick_keys THEN acc
                    ELSE IF definition = NoneV THEN acc
                    ELSE IF entry # NoneV /\ Truthy(entry.url)
                    THEN [acc EXCEPT
                            !.quick = Append(@, clone_entry(entry) @@ [favorite |-> TRUE]),
                            !.quick_keys = @ \cup {key}]
                    ELSE acc
         IN favorites_loop(Tail(favs), flat_defs, base_context, nxt)

\* profile = getattr(user, "get_profile", lambda: None)(); {"user": .., "profile": ..}
menu_context(u) ==
    LET profile == IF u.has_get_profile THEN u.profile ELSE NoneV
    IN Dict([user |-> u, profile |-> profile])

build_menu_for_user(u, favs) ==
    LET favs1 == IF Truthy(favs) THEN favs.v ELSE <<>>
        base_context == menu_context(u)
        definitions == get_menu_definitions(u)
    IN IF definitions = Raised("AttributeError") THEN definitions
       ELSE LET flat_defs == flatten_definitions(definitions)
                acc0 == [primary |-> <<>>, quick |-> <<>>, quick_keys |-> {}]
                acc1 == static_loop(definitions, base_context, acc0)
                acc2 == favorites_loop(favs1, flat_defs, base_context, acc1)
            IN [t |-> "menu", primary |-> acc2.primary, quick |-> acc2.quick]

---------------------------------------------------------------------------
(* The requests the menu is built for.                                     *)

MaxFavorites == 2

FavoriteKeyPool ==
    {"dashboard", "leader_quick", "leader_enrollments",
     "faculty_new", "faculty_admin", "removed_key"}

RECURSIVE SeqsUpTo(_, _)
SeqsUpTo(S, n) ==
    IF n = 0 THEN {<<>>}
    ELSE LET shorter == SeqsUpTo(S, n - 1)
         IN shorter \cup {Append(s, x) : s \in shorter, x \in S}

FavoriteInputs == {NoneV} \cup {List(s) : s \in SeqsUpTo(FavoriteKeyPool, MaxFavorites)}

UserTypes ==
    {"LEADER", "leader", "FACULTY", "ORGANIZATION_FACULTY", "ATTENDEE", "ADMIN",
     "FACILITY_FACULTY"}

FactionObj == Obj([slug |-> Str("eagle-patrol")])
FacilityObj == Obj([slug |-> Str("river-bend")])

Profiles ==
    {NoneV,
     Obj([slug |-> Str("pat-doe")]),
     Obj([slug |-> Str("pat-doe"), faction |-> NoneV]),
     Obj([slug |-> Str("pat-doe"), faction |-> FactionObj]),
     Obj([slug |-> Str("pat-doe"), facility |-> NoneV]),
     Obj([slug |-> Str("pat-doe"), facility |-> FacilityObj])}

UserAttrs ==
    {[is_admin |-> Bool(FALSE)], [user_type |-> NoneV, is_admin |-> Bool(FALSE)]}
    \cup {[user_type |-> Str(ut), is_admin |-> Bool(b)] : ut \in UserTypes, b \in BOOLEAN}

Users ==
    {Obj(a) @@ [has_get_profile |-> TRUE, profile |-> p] : a \in UserAttrs, p \in Profiles}
    \cup {Obj(a) @@ [has_get_profile |-> FALSE, profile |-> NoneV] : a \in UserAttrs}

\* every url_name of MENU_REGISTRY with the parameters its dynamic_kwargs name
FullURLconf ==
    [dashboard |-> {}, resources |-> {}]
    @@ ("attendees:enrollments:index" :> {"slug"})
    @@ ("factions:enrollments:index" :> {"slug"})
    @@ ("leaders:index" :> {})
    @@ ("leaders:dashboard" :> {})
    @@ ("facultys:manage" :> {})
    @@ ("facilities:facultys:new" :> {"facility_slug"})
    @@ ("facilities:faculty:manage" :> {"facility_slug"})
    @@ ("reports:list_user_reports" :> {})
    @@ ("admin:index" :> {})

\* routes a deployment may lack (another app not installed or misconfigured)
UnstableRoutes == {"factions:enrollments:index", "facultys:manage"}

URLconfs ==
    {[n \in (DOMAIN FullURLconf) \ down |-> FullURLconf[n]] : down \in SUBSET UnstableRoutes}

InitMenu ==
    /\ phase = "menu"
    /\ user \in Users
    /\ favorites \in FavoriteInputs
    /\ urlconf \in URLconfs
    /\ menu_result = Pending
    /\ IdleExcept("menu")

\* one call of build_menu_for_user(user, favorites)
BuildMenuForUser ==
    /\ phase = "menu"
    /\ menu_result = Pending
    /\ menu_result' = build_menu_for_user(user, favorites)
    /\ UNCHANGED <<phase, user, favorites, urlconf>>
    /\ Frame("menu")

SpecMenu == InitMenu /\ [][BuildMenuForUser]_vars

---------------------------------------------------------------------------
(* Properties of the menu resolver.                                        *)

MenuDone == phase = "menu" /\ menu_result # Pending
MenuOk == MenuDone /\ menu_result.t = "menu"

\* the definitions the user's menu is resolved from (none when the lookup raised)
UserDefinitions ==
    LET d == get_menu_definitions(user)
    IN IF d = Raised("AttributeError") THEN <<>> ELSE d

Children(d) == dget(d, "children", <<>>)
DynamicKwargs(d) == dget(d, "dynamic_kwargs", EmptyDict)

RECURSIVE DefSet(_)
\* every definition at any depth
DefSet(defs) ==
    IF defs = <<>> THEN {}
    ELSE {Head(defs)} \cup DefSet(Children(Head(defs))) \cup DefSet(Tail(defs))

SubtreeKeys(defs) == {d.key : d \in DefSet(defs)}

DefByKey(defs, k) == CHOOSE d \in DefSet(defs) : d.key = k

ConditionFails(d, u) ==
    "condition" \in DOMAIN d /\ ~Truthy(call_condition(d.condition, u))

RECURSIVE HiddenKeys(_, _)
\* keys of the definitions whose own condition, or an ancestor's, fails for u
HiddenKeys(defs, u) ==
    IF defs = <<>> THEN {}
    ELSE (IF ConditionFails(Head(defs), u)
          THEN SubtreeKeys(<<Head(defs)>>)
          ELSE HiddenKeys(Children(Head(defs)), u))
         \cup HiddenKeys(Tail(defs), u)

RECURSIVE AllEntries(_)
\* every entry at any depth of a list of resolved entries
AllEntries(entries) ==
    IF entries = <<>> THEN {}
    ELSE {Head(entries)} \cup AllEntries(Head(entries).children)
         \cup AllEntries(Tail(entries))

EntryKeys(entries) == {e.key : e \in AllEntries(entries)}

IsFavorite(e) == "favorite" \in DOMAIN e
IsStatic(e) == ~IsFavorite(e)
StaticQuick == SelectSeq(menu_result.quick, IsStatic)
FavoriteQuick == SelectSeq(menu_result.quick, IsFavorite)
KeysOf(entries) == [i \in DOMAIN entries |-> entries[i].key]
KeySet(entries) == {entries[i].key : i \in DOMAIN entries}
FavoriteList == IF Truthy(favorites) THEN favorites.v ELSE <<>>

PathsResolve(d, ctx) ==
    \A k \in DOMAIN DynamicKwargs(d) : resolve_context(ctx, DynamicKwargs(d)[k]) # NoneV

RouteResolves(d) ==
    /\ "url_name" \in DOMAIN d
    /\ d.url_name \in DOMAIN urlconf
    /\ urlconf[d.url_name] = DOMAIN DynamicKwargs(d)

RequiredKwargIsNone(d, ctx) ==
    \E k \in DOMAIN DynamicKwargs(d) :
        /\ resolve_context(ctx, DynamicKwargs(d)[k]) = NoneV
        /\ d.url_name \in DOMAIN urlconf => k \in urlconf[d.url_name]

UrlEmbeds(d, url, ctx) ==
    /\ url.t = "url"
    /\ \A k \in DOMAIN DynamicKwargs(d) :
          /\ k \in DOMAIN url.kwargs
          /\ url.kwargs[k] = resolve_context(ctx, DynamicKwargs(d)[k])

UrlAsClaimed(d, url, ctx, route_needed) ==
    /\ ( /\ DOMAIN DynamicKwargs(d) # {}
         /\ PathsResolve(d, ctx)
         /\ route_needed => RouteResolves(d) )
       => UrlEmbeds(d, url, ctx)
    /\ RequiredKwargIsNone(d, ctx) => url = NoneV

RECURSIVE Shown(_, _, _, _)
\* every definition of defs whose condition passes has its entry in entries,
\* with the url as claimed, and so on for its children under it
Shown(defs, entries, ctx, route_needed) ==
    \/ defs = <<>>
    \/ /\ \/ ConditionFails(Head(defs), ctx.a["user"])
          \/ \E i \in DOMAIN entries :
                /\ entries[i].key = Head(defs).key
                /\ UrlAsClaimed(Head(defs), entries[i].url, ctx, route_needed)
                /\ Shown(Children(Head(defs)), entries[i].children, ctx, route_needed)
       /\ Shown(Tail(defs), entries, ctx, route_needed)

\* C3 as stated: every definition whose own and ancestors' conditions pass is
\* output; its url embeds the resolved kwarg value whenever every dotted path
\* resolves to a non-None value, and is None (entry still present) when a kwarg
\* the route requires resolves to None.
C3_EntryShownUrlEmbedsWheneverPathsResolve ==
    MenuOk => Shown(UserDefinitions, menu_result.primary \o StaticQuick,
                    menu_context(user), FALSE)

\* C3 amended: as C3, the url embedding the value when every dotted path
\* resolves to a non-None value and the route resolves with those kwargs.
C3_EntryShownUrlEmbedsWhenRouteResolves ==
    MenuOk => Shown(UserDefinitions, menu_result.primary \o StaticQuick,
                    menu_context(user), TRUE)

\* a leader with a faction: Manage Enrollments carries the faction's slug
C3_Witness ==
    /\ MenuOk
    /\ resolve_context(menu_context(user), <<"profile", "faction", "slug">>)
          = Str("eagle-patrol")
    /\ \E e \in AllEntries(menu_result.primary) :
          /\ e.key = "leader_enrollments"
          /\ e.url.t = "url"
          /\ e.url.kwargs["slug"] = Str("eagle-patrol")

\* C4: in the primary tree and the quick entries that come from the static
\* definitions, no entry at any depth is a definition whose own condition or an
\* ancestor's condition failed for the user.
C4_HiddenSubtreeAbsent ==
    MenuOk =>
        HiddenKeys(UserDefinitions, user)
          \cap (EntryKeys(menu_result.primary) \cup EntryKeys(StaticQuick)) = {}

\* a faculty user who is no admin: the Faculty Admin subtree is hidden
C4_Witness ==
    /\ MenuOk
    /\ "faculty_new" \in HiddenKeys(UserDefinitions, user)
    /\ "faculty_portal" \in EntryKeys(menu_result.primary)

\* C5: no favorite entry of quick is a definition that lies under (or is) a
\* definition whose condition fails for the user.
C5_FavoriteNeverUnderHiddenParent ==
    MenuOk =>
        \A i \in DOMAIN menu_result.quick :
            IsFavorite(menu_result.quick[i])
              => menu_result.quick[i].key \notin HiddenKeys(UserDefinitions, user)

AllRegistryDefs == UNION {DefSet(MENU_REGISTRY[role]) : role \in DOMAIN MENU_REGISTRY}

RECURSIVE HasBrokenHop(_, _)
\* some hop of the path is missing or None
HasBrokenHop(value, attrs) ==
    /\ attrs # <<>>
    /\ \/ value = NoneV
       \/ LET nxt == IF value.t \in {"dict", "obj"} /\ Head(attrs) \in DOMAIN value.a
                     THEN value.a[Head(attrs)]
                     ELSE NoneV
          IN nxt = NoneV \/ HasBrokenHop(nxt, Tail(attrs))

SoundKwargs(d, ctx) ==
    {k \in DOMAIN DynamicKwargs(d) : ~HasBrokenHop(ctx, DynamicKwargs(d)[k])}

\* C6: resolve_url never raises, for any definition of the registry and any
\* user and profile: it returns None or a URL; a dotted path with a missing or
\* None hop resolves to None and its kwarg is not handed to the route; when the
\* route cannot be resolved with the remaining kwargs the result is None.
C6_ResolveUrlNeverRaises ==
    MenuDone =>
        /\ \A d \in AllRegistryDefs :
              LET ctx == menu_context(user)
                  r == resolve_url(d, ctx)
              IN /\ r.t \in {"None", "url"}
                 /\ \A k \in DOMAIN DynamicKwargs(d) :
                       HasBrokenHop(ctx, DynamicKwargs(d)[k])
                         => /\ resolve_context(ctx, DynamicKwargs(d)[k]) = NoneV
                            /\ r.t = "url" => k \notin DOMAIN r.kwargs
                 /\ r.t = "url" => \A k \in DOMAIN r.kwargs : r.kwargs[k] # NoneV
                 /\ ( \/ "url_name" \notin DOMAIN d
                      \/ d.url_name \notin DOMAIN urlconf
                      \/ urlconf[d.url_name] # SoundKwargs(d, ctx) )
                    => r = NoneV
        /\ MenuOk =>
              \A e \in AllEntries(menu_result.primary \o menu_result.quick) :
                  e.url.t \in {"None", "url"}

\* a leader without a faction on a deployment that lacks a route: the dropped
\* kwarg and the unregistered route each gave a None url
C6_Witness ==
    /\ MenuOk
    /\ "facultys:manage" \notin DOMAIN urlconf
    /\ resolve_url(DefByKey(MENU_REGISTRY["FACULTY"], "faculty_schedule"),
                   menu_context(user)) = NoneV
    /\ "factions:enrollments:index" \in DOMAIN urlconf
    /\ HasBrokenHop(menu_context(user), <<"profile", "faction", "slug">>)
    /\ \E e \in AllEntries(menu_result.primary) :
          e.key = "leader_enrollments" /\ e.url = NoneV

UnknownRole(u) ==
    LET ut == getattr(u, "user_type", NoneV)
    IN ut.t # "str" \/ upper(ut.v) \notin DOMAIN MENU_REGISTRY

\* C7: for a user whose role is not a key of MENU_REGISTRY (a user with no
\* user_type or a None user_type included), get_menu_definitions returns exactly
\* the COMMON entries and build_menu_for_user completes without error.
C7_UnknownRoleGetsCommonOnly ==
    (MenuDone /\ UnknownRole(user)) =>
        /\ menu_result.t = "menu"
        /\ get_menu_definitions(user) = MENU_REGISTRY["COMMON"]

\* the top-level definitions that resolve for the user, by group
IsQuickDef(d) == dget(d, "group", "") = "quick" /\ ~ConditionFails(d, user)
IsPrimaryDef(d) == dget(d, "group", "") # "quick" /\ ~ConditionFails(d, user)

FavoriteShown(k) ==
    \E j \in DOMAIN menu_result.quick :
        /\ menu_result.quick[j].key = k
        /\ IsFavorite(menu_result.quick[j])
        /\ menu_result.quick[j].favorite = TRUE

\* k is in the flattened index, its own condition passes, it is not in quick already
FavoriteEligible(k) ==
    /\ k \in SubtreeKeys(UserDefinitions)
    /\ ~ConditionFails(DefByKey(UserDefinitions, k), user)
    /\ k \notin KeySet(SelectSeq(UserDefinitions, IsQuickDef))

\* C8 as stated: every favorite key that is in the flattened index, whose own
\* condition passes and that is not already in quick has a quick entry with
\* that key and favorite == True.
C8_EveryEligibleFavoriteInQuick ==
    MenuOk =>
        \A i \in DOMAIN FavoriteList :
            FavoriteEligible(FavoriteList[i]) => FavoriteShown(FavoriteList[i])

\* C8 amended: as C8, for the favorite keys whose entry also resolves to a url
\* that is not None.
C8_EveryLinkedFavoriteInQuick ==
    MenuOk =>
        \A i \in DOMAIN FavoriteList :
            ( /\ FavoriteEligible(FavoriteList[i])
              /\ resolve_url(DefByKey(UserDefinitions, FavoriteList[i]),
                             menu_context(user)) # NoneV )
              => FavoriteShown(FavoriteList[i])

\* favorites=["leader_enrollments"] for a leader with a faction
C8_Witness ==
    /\ MenuOk
    /\ FavoriteList = <<"leader_enrollments">>
    /\ FavoriteShown("leader_enrollments")

RECURSIVE IsOrderedSub(_, _)
\* s is t with some elements left out
IsOrderedSub(s, t) ==
    IF s = <<>> THEN TRUE
    ELSE IF t = <<>> THEN FALSE
    ELSE IF Head(s) = Head(t) THEN IsOrderedSub(Tail(s), Tail(t))
    ELSE IsOrderedSub(s, Tail(t))

FavoriteSkipped(k) ==
    \/ k \notin SubtreeKeys(UserDefinitions)
    \/ ConditionFails(DefByKey(UserDefinitions, k), user)

FavoriteKept(k) == ~FavoriteSkipped(k)

\* C10: a favorite key that is not in the flattened index, or whose own
\* condition fails, has no entry in quick, and the outcome of the call (the
\* primary list, the quick list, any error) is the outcome of the same call
\* with those keys taken out of favorites.
C10_SkippedFavoriteChangesNothing ==
    MenuDone =>
        /\ menu_result =
              build_menu_for_user(user, List(SelectSeq(FavoriteList, FavoriteKept)))
        /\ MenuOk =>
              \A i \in DOMAIN FavoriteList :
                  FavoriteSkipped(FavoriteList[i])
                    => FavoriteList[i] \notin KeySet(FavoriteQuick)

\* favorites naming a removed key and a condition-failing entry next to a good one
C10_Witness ==
    /\ MenuOk
    /\ FavoriteList = <<"removed_key", "dashboard">>
    /\ KeysOf(FavoriteQuick) = <<"dashboard">>

\* the keys MENU_REGISTRY defines under COMMON or under the user's upper-cased
\* role, at any depth
OwnRoleKeys ==
    LET ut == getattr(user, "user_type", Str("other"))
        role == IF ut.t = "str" THEN upper(ut.v) ELSE "OTHER"
    IN SubtreeKeys(MENU_REGISTRY["COMMON"])
       \cup (IF role \in DOMAIN MENU_REGISTRY
             THEN SubtreeKeys(MENU_REGISTRY[role]) ELSE {})

\* C27: every entry of primary and quick, at every depth, has a key defined
\* under COMMON or under the user's upper-cased role; a favorite key defined
\* only under another role is never added to quick.
C27_OnlyOwnRoleKeysInMenu ==
    MenuOk =>
        EntryKeys(menu_result.primary \o menu_result.quick) \subseteq OwnRoleKeys

\* a leader who stored a faculty key and a leader key: only the leader key
\* became a favorite entry
C27_Witness ==
    /\ MenuOk
    /\ getattr(user, "user_type", NoneV) = Str("LEADER")
    /\ getattr(user, "is_admin", NoneV) = Bool(TRUE)
    /\ FavoriteList = <<"faculty_new", "leader_enrollments">>
    /\ KeysOf(FavoriteQuick) = <<"leader_enrollments">>
    /\ "faculty_new" \notin OwnRoleKeys

---------------------------------------------------------------------------
(* widgets.py, views/base.py: dashboard widget composition                 *)

default_width == 6
default_priority == 10

\* class attributes of the widget classes: widget_type, template_name
widget_class_attrs(cls) ==
    CASE cls = "TextWidget" ->
            [widget_type |-> Str("text"), template_name |-> Str("widgets/text.html")]
      [] cls = "ActionsWidget" ->
            [widget_type |-> Str("actions"), template_name |-> Str("widgets/actions.html")]
      [] OTHER -> [widget_type |-> Str("text"), template_name |-> NoneV]

\* django.utils.text.slugify on the titles used here
slugify(title) ==
    CASE title = "Visible" -> "visible"
      [] title = "Hidden" -> "hidden"
      [] title = "Team Roster" -> "team-roster"
      [] title = "Team Metrics" -> "team-metrics"
      [] title = "Alerts!" -> "alerts"
      [] title = "TextWidget" -> "textwidget"
      [] title = "ActionsWidget" -> "actionswidget"
      [] title = "DashboardWidget" -> "dashboardwidget"
      [] OTHER -> ""

\* self.__class__.__name__.lower()
class_name_lower(cls) ==
    CASE cls = "TextWidget" -> "textwidget"
      [] cls = "ActionsWidget" -> "actionswidget"
      [] OTHER -> "dashboardwidget"

\* DashboardWidget.__init__(request, title, **options); hex is uuid4().hex[:5]
DashboardWidget(cls, title, options, hex) ==
    LET width == dget(options, "width", NoneV)
        priority == dget(options, "priority", NoneV)
        slug == dget(options, "slug", NoneV)
        template_name == dget(options, "template_name", NoneV)
        key == dget(options, "key", NoneV)
        named == {"width", "priority", "slug", "template_name", "key"}
        base_slug == IF Truthy(slug) THEN slug
                     ELSE IF slugify(title.v) # "" THEN Str(slugify(title.v))
                     ELSE Str(class_name_lower(cls))
    IN [t |-> "widget",
        cls |-> cls,
        title |-> title,
        width |-> IF Truthy(width) THEN width ELSE PyInt(default_width),
        priority |-> IF priority # NoneV THEN priority ELSE PyInt(default_priority),
        slug |-> [t |-> "str", base |-> base_slug.v, hex |-> hex],
        key |-> IF Truthy(key) THEN key ELSE base_slug,
        extra |-> [k \in (DOMAIN options) \ named |-> options[k]],
        template_name |-> IF Truthy(template_name) THEN template_name
                          ELSE widget_class_attrs(cls).template_name]

get_payload(widget) ==
    CASE widget.cls = "TextWidget" ->
            [content |-> dget(widget.extra, "content", Str(""))]
      [] widget.cls = "ActionsWidget" ->
            [actions |-> dget(widget.extra, "actions", List(<<>>))]
      [] OTHER -> EmptyDict

\* payload.update({...}): the common fields win over the payload's
as_dict(widget) ==
    [slug |-> widget.slug,
     title |-> widget.title,
     width |-> widget.width,
     priority |-> widget.priority,
     type |-> widget_class_attrs(widget.cls).widget_type,
     template |-> widget.template_name,
     key |-> IF Truthy(widget.key) THEN widget.key ELSE widget.slug]
    @@ get_payload(widget)

\* django.utils.module_loading.import_string
import_string(path) ==
    CASE path = "core.widgets.TextWidget" -> Class("TextWidget")
      [] path = "core.widgets.ActionsWidget" -> Class("ActionsWidget")
      [] OTHER -> Raised("ImportError")

get_dashboard_widgets(v) ==
    IF v.widget_definitions.t = "list" THEN v.widget_definitions.v ELSE <<>>

_resolve_widget(definition, hex) ==
    IF definition.t = "widget" THEN definition
    ELSE IF definition.t = "dict"
    THEN LET w == dget(definition.a, "widget", NoneV)
             named == IF Truthy(w) THEN w ELSE dget(definition.a, "class", NoneV)
             widget_class == IF named.t = "str" THEN import_string(named.v) ELSE named
         IN IF widget_class.t = "raise" THEN widget_class
            ELSE IF ~Truthy(widget_class) THEN NoneV
            ELSE DashboardWidget(widget_class.name,
                                 dget(definition.a, "title", Str(widget_class.name)),
                                 dget(definition.a, "options", Dict(EmptyDict)).a,
                                 hex)
    ELSE NoneV

RECURSIVE insert_by_priority(_, _), insert_by_priority_unstable(_, _)
\* a sort that places w before the elements of equal priority
insert_by_priority_unstable(sorted, w) ==
    IF sorted = <<>> THEN <<w>>
    ELSE IF dget(Head(sorted), "priority", PyInt(default_priority)).v
            < dget(w, "priority", PyInt(default_priority)).v
    THEN <<Head(sorted)>> \o insert_by_priority(Tail(sorted), w)
    ELSE <<w>> \o sorted

\* place w after every element whose priority is not greater (a stable sort)
insert_by_priority(sorted, w) ==
    IF sorted = <<>> THEN <<w>>
    ELSE IF dget(Head(sorted), "priority", PyInt(default_priority)).v
            <= dget(w, "priority", PyInt(default_priority)).v
    THEN <<Head(sorted)>> \o insert_by_priority(Tail(sorted), w)
    ELSE <<w>> \o sorted

RECURSIVE sort_by_priority(_, _)
\* widgets.sort(key=lambda widget: widget.get("priority", 10))
sort_by_priority(widgets, sorted) ==
    IF widgets = <<>> THEN sorted
    ELSE sort_by_priority(Tail(widgets), insert_by_priority(sorted, Head(widgets)))

RECURSIVE widgets_loop(_, _, _, _)
\* the for loop of build_widgets; the n-th definition draws its own uuid4()
widgets_loop(definitions, widgets, seed, n) ==
    IF definitions = <<>> THEN List(widgets)
    ELSE LET widget == _resolve_widget(Head(definitions), [seed |-> seed, n |-> n])
         IN IF widget.t = "raise" THEN widget
            ELSE IF widget = NoneV
            THEN widgets_loop(Tail(definitions), widgets, seed, n + 1)
            ELSE widgets_loop(Tail(definitions), Append(widgets, as_dict(widget)),
                              seed, n + 1)

build_widgets(v, seed) ==
    LET widgets == widgets_loop(get_dashboard_widgets(v), <<>>, seed, 1)
    IN IF widgets.t = "raise" THEN widgets
       ELSE List(sort_by_priority(widgets.v, <<>>))

---------------------------------------------------------------------------
(* The dashboards that are built.                                          *)

MaxWidgets == 2

\* json.dumps of a list of keys, as stored in DashboardLayout.layout
json_dumps(keys) == [t |-> "str", json |-> keys]

WidgetDefinitionPool ==
    {Dict([key |-> Str("visible"), widget |-> Class("TextWidget"),
           title |-> Str("Visible"), options |-> Dict([content |-> Str("hello")])]),
     Dict([key |-> Str("hidden"), widget |-> Class("TextWidget"),
           title |-> Str("Hidden"), options |-> Dict([content |-> Str("secret")])]),
     Dict([key |-> Str("roster"), widget |-> Str("core.widgets.ActionsWidget"),
           title |-> Str("Team Roster"),
           options |-> Dict([priority |-> PyInt(5), key |-> Str("roster")])]),
     Dict([key |-> Str("metrics"), widget |-> Class("TextWidget"),
           title |-> Str("Team Metrics"), options |-> Dict([content |-> Str("12")])]),
     Dict([key |-> Str("broken"), widget |-> Str("core.widgets.MissingWidget"),
           title |-> Str("Broken")]),
     Dict([key |-> Str("empty"), title |-> Str("Empty")]),
     Dict([key |-> Str("misc"), class |-> Class("TextWidget")]),
     DashboardWidget("DashboardWidget", Str("Alerts!"),
                     [priority |-> PyInt(20), key |-> Str("alerts")],
                     [seed |-> "prebuilt", n |-> 0])}

DefinitionLists == SeqsUpTo(WidgetDefinitionPool, MaxWidgets)

\* a view takes its definitions from the widget_definitions class attribute;
\* the test view DummyDashboardView defines get_registry_definitions instead
Views ==
    {[request_user |-> "dashboard.user", portal_key |-> "test-dashboard",
      widget_definitions |-> List(d), registry_definitions |-> NoneV]
        : d \in DefinitionLists}
    \cup
    {[request_user |-> "dashboard.user", portal_key |-> "test-dashboard",
      widget_definitions |-> NoneV, registry_definitions |-> List(d)]
        : d \in DefinitionLists}

HiddenChoices == {<<>>, <<"hidden">>, <<"roster">>, <<"hidden", "visible">>}

LayoutChoices ==
    {Str(""), json_dumps(<<"hidden", "visible">>), json_dumps(<<"roster", "hidden">>)}

\* DashboardLayout rows; (user, portal_key) is unique
DashboardLayout(u, portal_key, layout, hidden_widgets) ==
    [user |-> u, portal_key |-> portal_key, layout |-> layout,
     hidden_widgets |-> hidden_widgets]

LayoutTables ==
    {{}} \cup
    {{DashboardLayout("dashboard.user", "test-dashboard", l, h)}
        : l \in LayoutChoices, h \in HiddenChoices}

UuidSeeds == {"a3f9c", "07be1"}

InitDashboard ==
    /\ phase = "dashboard"
    /\ view \in Views
    /\ layouts \in LayoutTables
    /\ uuid_seed \in UuidSeeds
    /\ widgets_result = Pending
    /\ IdleExcept("dashboard")

\* one call of view.build_widgets()
BuildWidgets ==
    /\ phase = "dashboard"
    /\ widgets_result = Pending
    /\ widgets_result' = build_widgets(view, uuid_seed)
    /\ UNCHANGED <<phase, view, layouts, uuid_seed>>
    /\ Frame("dashboard")

SpecDashboard == InitDashboard /\ [][BuildWidgets]_vars

---------------------------------------------------------------------------
(* Properties of the dashboard widget composition.                         *)

\* build_widgets returned a list for a view whose definitions are in
\* widget_definitions, the attribute get_dashboard_widgets reads
DashboardBuilt ==
    /\ phase = "dashboard"
    /\ widgets_result.t = "list"
    /\ view.widget_definitions.t = "list"

\* the stored DashboardLayout of the view's user and portal_key
HasLayoutRow ==
    \E r \in layouts : r.user = view.request_user /\ r.portal_key = view.portal_key

LayoutRow ==
    CHOOSE r \in layouts : r.user = view.request_user /\ r.portal_key = view.portal_key

HiddenKeySet == {LayoutRow.hidden_widgets[i] : i \in DOMAIN LayoutRow.hidden_widgets}

\* the definitions the view's registry supplies, by either hook
RegistryDefinitions ==
    (IF view.widget_definitions.t = "list" THEN view.widget_definitions.v ELSE <<>>)
    \o (IF view.registry_definitions.t = "list" THEN view.registry_definitions.v ELSE <<>>)

\* the keys of the widgets the registry's definitions resolve to
RegistryWidgetKeys ==
    LET resolved == {_resolve_widget(RegistryDefinitions[i], [seed |-> uuid_seed, n |-> i])
                        : i \in DOMAIN RegistryDefinitions}
    IN {as_dict(w).key.v : w \in {x \in resolved : x.t = "widget"}}

ResultKeys == [i \in DOMAIN widgets_result.v |-> widgets_result.v[i].key.v]
ResultKeySet == {ResultKeys[i] : i \in DOMAIN ResultKeys}

\* C1: with a stored DashboardLayout for the user and portal, no widget whose
\* key is in hidden_widgets is in the list build_widgets returns, and every
\* registry widget whose key is not in hidden_widgets is.
C1_HiddenWidgetsExcluded ==
    (DashboardBuilt /\ HasLayoutRow) =>
        /\ ResultKeySet \cap HiddenKeySet = {}
        /\ RegistryWidgetKeys \ HiddenKeySet \subseteq ResultKeySet

IsShownLayoutKey(k) == k \in RegistryWidgetKeys \ HiddenKeySet

\* C2: with a stored layout list, build_widgets returns the widgets the list
\* names (those of the registry that are not hidden) first and in the list's
\* order, whatever the priority and registry order.
C2_LayoutOrderRespected ==
    (DashboardBuilt /\ HasLayoutRow /\ "json" \in DOMAIN LayoutRow.layout) =>
        LET named == SelectSeq(LayoutRow.layout.json, IsShownLayoutKey)
        IN /\ Len(ResultKeys) >= Len(named)
           /\ \A i \in DOMAIN named : ResultKeys[i] = named[i]

\* build_widgets ran on a view whose definitions are in widget_definitions
DashboardRan ==
    /\ phase = "dashboard"
    /\ widgets_result # Pending
    /\ view.widget_definitions.t = "list"

Definitions == view.widget_definitions.v

\* the widget the i-th definition resolves to, None, or the exception
Resolved(i) == _resolve_widget(Definitions[i], [seed |-> uuid_seed, n |-> i])

\* the definition names no class, or a dotted path that does not import
Unresolvable(i) ==
    /\ Definitions[i].t = "dict"
    /\ LET w == dget(Definitions[i].a, "widget", NoneV)
           c == dget(Definitions[i].a, "class", NoneV)
       IN \/ w = NoneV /\ c = NoneV
          \/ w.t = "str" /\ w.v \notin {"core.widgets.TextWidget",
                                          "core.widgets.ActionsWidget"}

\* C15: when a definition cannot be resolved (a dotted path that fails to
\* import, or no class), build_widgets does not raise; that definition is
\* skipped and the widget of every other definition is returned.
C15_UnresolvableDefinitionSkipped ==
    (DashboardRan /\ \E i \in DOMAIN Definitions : Unresolvable(i)) =>
        /\ widgets_result.t = "list"
        /\ Len(widgets_result.v) =
              Cardinality({i \in DOMAIN Definitions : ~Unresolvable(i)})
        /\ \A i \in DOMAIN Definitions :
              ~Unresolvable(i) =>
                 \E j \in DOMAIN widgets_result.v :
                    widgets_result.v[j] = as_dict(Resolved(i))

FullDictDefinition(i) ==
    /\ Definitions[i].t = "dict"
    /\ {"key", "widget", "title", "options"} \subseteq DOMAIN Definitions[i].a
    /\ ~Unresolvable(i)

\* the serialized widget of the i-th definition, found by its slug's uuid
WidgetOf(i) ==
    {w \in {widgets_result.v[j] : j \in DOMAIN widgets_result.v} :
        w.slug.hex = [seed |-> uuid_seed, n |-> i]}

\* C16: the serialized widget of a dict definition {key, widget, title,
\* options} has the definition's key as its key, whatever the title is.
C16_WidgetKeyIsDefinitionKey ==
    DashboardBuilt =>
        \A i \in DOMAIN Definitions :
            FullDictDefinition(i) =>
                /\ WidgetOf(i) # {}
                /\ \A w \in WidgetOf(i) : w.key = Definitions[i].a.key

PriorityOf(w) == dget(w, "priority", PyInt(10)).v

\* the places in the registry a returned widget can come from
RegistryPlaces(w) ==
    {i \in DOMAIN Definitions :
        IF Definitions[i].t = "widget" THEN as_dict(Definitions[i]) = w
        ELSE w.slug.hex = [seed |-> uuid_seed, n |-> i]}

\* C17: with no stored layout, build_widgets returns the widgets of the
\* registry in ascending priority (10 when a definition sets none), widgets
\* of equal priority in their registry order.
C17_SortedByPriorityStable ==
    (DashboardBuilt /\ ~HasLayoutRow) =>
        LET result == widgets_result.v
        IN /\ \A i \in DOMAIN Definitions :
                 (Definitions[i].t = "widget" \/ ~Unresolvable(i)) =>
                    \E j \in DOMAIN result : i \in RegistryPlaces(result[j])
           /\ Len(result) = Cardinality({i \in DOMAIN Definitions :
                                Definitions[i].t = "widget" \/ ~Unresolvable(i)})
           /\ \A j \in DOMAIN result :
                 \A i \in RegistryPlaces(result[j]) :
                    ( /\ Definitions[i].t = "dict"
                      /\ "priority" \notin
                            DOMAIN dget(Definitions[i].a, "options", Dict(EmptyDict)).a )
                    => result[j].priority = PyInt(10)
           /\ \A j, k \in DOMAIN result :
                 j < k =>
                    /\ PriorityOf(result[j]) <= PriorityOf(result[k])
                    /\ ( PriorityOf(result[j]) = PriorityOf(result[k])
                         /\ result[j] # result[k] )
                       => \E a \in RegistryPlaces(result[j]),
                             b \in RegistryPlaces(result[k]) : a < b

\* two different widgets that set no priority: both carry 10 and keep their
\* registry order
C17_Witness ==
    /\ DashboardBuilt
    /\ ~HasLayoutRow
    /\ Len(Definitions) = 2
    /\ Len(widgets_result.v) = 2
    /\ Definitions[1].t = "dict" /\ Definitions[2].t = "dict"
    /\ Definitions[1].a.key = Str("hidden")
    /\ Definitions[2].a.key = Str("visible")
    /\ widgets_result.v[1].priority = PyInt(10)
    /\ widgets_result.v[2].priority = PyInt(10)
    /\ widgets_result.v[1].title = Str("Hidden")
    /\ widgets_result.v[2].title = Str("Visible")

---------------------------------------------------------------------------
(* models/navigation.py: NavigationPreference.                             *)

\* set(self.favorite_keys or [])
favorites_set(keys) ==
    IF Truthy(keys) THEN {keys.v[i] : i \in DOMAIN keys.v} ELSE {}

\* list(favorites): a set iterates in an order of its own, each element once
list_of_set(S) ==
    {List(s) : s \in {f \in [1..Cardinality(S) -> S] :
                          \A x \in S : \E i \in DOMAIN f : f[i] = x}}

\* add_favorite with the key appended to the stored list
add_favorite_appends(keys, key) ==
    {List((IF Truthy(keys) THEN keys.v ELSE <<>>) \o <<key>>)}

\* the values add_favorite may assign to self.favorite_keys
add_favorite(keys, key) == list_of_set(favorites_set(keys) \cup {key})

\* remove_favorite that drops the first occurrence only (list.remove)
remove_favorite_first(keys, key) ==
    LET s == IF Truthy(keys) THEN keys.v ELSE <<>>
        hits == {i \in DOMAIN s : s[i] = key}
    IN IF hits = {} THEN {List(s)}
       ELSE LET h == CHOOSE i \in hits : \A j \in hits : i <= j
            IN {List([i \in 1..(Len(s) - 1) |-> IF i < h THEN s[i] ELSE s[i + 1]])}

\* the values remove_favorite may assign to self.favorite_keys
remove_favorite(keys, key) == list_of_set(favorites_set(keys) \ {key})

MaxStoredKeys == 3

NavKeyPool == {"dashboard", "leader_quick", "faculty_new"}

\* a freshly loaded instance: any JSON list of keys the column can hold
InitNavigation ==
    /\ phase = "navigation"
    /\ favorite_keys \in {List(s) : s \in SeqsUpTo(NavKeyPool, MaxStoredKeys)}
    /\ nav_row = favorite_keys
    /\ nav_last = NoneV
    /\ IdleExcept("navigation")

LastCall(op, key) ==
    [op |-> op, key |-> key, before |-> favorite_keys,
     prev |-> IF nav_last = NoneV THEN NoneV
              ELSE [op |-> nav_last.op, key |-> nav_last.key]]

\* preferences.add_favorite(key), save(update_fields=...) included
AddFavorite ==
    /\ phase = "navigation"
    /\ \E key \in NavKeyPool :
         \E new \in add_favorite(favorite_keys, key) :
            /\ favorite_keys' = new
            /\ nav_row' = new
            /\ nav_last' = LastCall("add_favorite", key)
    /\ UNCHANGED phase
    /\ Frame("navigation")

\* preferences.remove_favorite(key), save(update_fields=...) included
RemoveFavorite ==
    /\ phase = "navigation"
    /\ \E key \in NavKeyPool :
         \E new \in remove_favorite(favorite_keys, key) :
            /\ favorite_keys' = new
            /\ nav_row' = new
            /\ nav_last' = LastCall("remove_favorite", key)
    /\ UNCHANGED phase
    /\ Frame("navigation")

SpecNavigation == InitNavigation /\ [][AddFavorite \/ RemoveFavorite]_vars

---------------------------------------------------------------------------
(* Properties of NavigationPreference.                                     *)

Occurrences(keys, k) == Cardinality({i \in DOMAIN keys.v : keys.v[i] = k})

NoDuplicates(keys) == \A k \in NavKeyPool : Occurrences(keys, k) <= 1

OthersUnchanged(k) ==
    \A o \in NavKeyPool \ {k} :
        (Occurrences(nav_row, o) > 0) <=> (Occurrences(nav_last.before, o) > 0)

\* C11: after add_favorite(k) the persisted favorite_keys holds k exactly
\* once, after remove_favorite(k) it does not hold k; either way the
\* membership of every other key is as before and the list has no duplicates,
\* so remove_favorite(k) right after add_favorite(k) leaves k absent.
C11_AddRemoveFavoriteSetSemantics ==
    (phase = "navigation" /\ nav_last # NoneV) =>
        /\ nav_row = favorite_keys
        /\ nav_last.op = "add_favorite" => Occurrences(nav_row, nav_last.key) = 1
        /\ nav_last.op = "remove_favorite" => Occurrences(nav_row, nav_last.key) = 0
        /\ OthersUnchanged(nav_last.key)
        /\ NoDuplicates(nav_row)
        /\ ( /\ nav_last.op = "remove_favorite"
             /\ nav_last.prev # NoneV
             /\ nav_last.prev = [op |-> "add_favorite", key |-> nav_last.key] )
           => Occurrences(nav_row, nav_last.key) = 0

\* remove_favorite(k) right after add_favorite(k): k was there once, now it
\* is gone, and the two other keys are still there
C11_Witness ==
    /\ phase = "navigation"
    /\ nav_last # NoneV
    /\ nav_last.op = "remove_favorite"
    /\ nav_last.prev = [op |-> "add_favorite", key |-> nav_last.key]
    /\ Occurrences(nav_last.before, nav_last.key) = 1
    /\ Occurrences(nav_row, nav_last.key) = 0
    /\ Len(nav_row.v) = 2

---------------------------------------------------------------------------
(* context_processors.py: active_enrollment and user_profile.              *)

\* Model.objects.get(field=value): the one matching row, or an exception
objects_get(table, field, value) ==
    LET hits == {row \in table : row.a[field] = value}
    IN IF hits = {} THEN Raised("DoesNotExist")
       ELSE IF Cardinality(hits) > 1 THEN Raised("MultipleObjectsReturned")
       ELSE CHOOSE row \in hits : TRUE

\* ActiveEnrollment(user_id=...): an unsaved instance
ActiveEnrollment(user_id) ==
    Obj([id |-> NoneV, user_id |-> user_id, faction_enrollment |-> NoneV])

\* Faction.objects.with_member_count().with_sub_faction_count().get(id=...)
annotated_faction(faction_id) ==
    Obj([id |-> faction_id, member_count |-> PyInt(4), sub_faction_count |-> PyInt(1)])

\* lines 127-135: the faction of the enrollment is refetched with its counts
with_faction_counts(active) ==
    IF Truthy(active.a.faction_enrollment)
    THEN LET faction_id == IF Truthy(active.a.faction_enrollment.a.faction.a.id)
                           THEN active.a.faction_enrollment.a.faction.a.id
                           ELSE PyInt(0)
         IN Obj([active.a EXCEPT !.faction_enrollment =
                    Obj([faction |-> annotated_faction(faction_id)])])
    ELSE active

\* active_enrollment with the user-keyed lookup tried before the session id
active_enrollment_user_first(req, table) ==
    IF Truthy(req.user.a.is_superuser) THEN Dict(EmptyDict)
    ELSE LET session_id == dget(req.session, "active_enrollment_id", NoneV)
             by_user == objects_get(table, "user_id", req.user.a.id)
             found ==
                IF Truthy(req.user.a.is_authenticated) /\ by_user.t # "raise"
                THEN by_user
                ELSE IF Truthy(session_id) THEN objects_get(table, "id", session_id)
                ELSE IF Truthy(req.user.a.is_authenticated) THEN by_user
                ELSE ActiveEnrollment(NoneV)
         IN IF found.t = "raise" THEN found
            ELSE Dict([active_enrollment |-> with_faction_counts(found)])

\* active_enrollment(request)
active_enrollment(req, table) ==
    IF Truthy(req.user.a.is_superuser) THEN Dict(EmptyDict)
    ELSE LET session_id == dget(req.session, "active_enrollment_id", NoneV)
             by_user == objects_get(table, "user_id", req.user.a.id)
             found ==
                IF Truthy(session_id) THEN objects_get(table, "id", session_id)
                ELSE IF Truthy(req.user.a.is_authenticated)
                THEN IF by_user.t = "raise" THEN by_user
                     ELSE IF Truthy(by_user) THEN by_user
                     ELSE ActiveEnrollment(req.user.a.id)
                ELSE ActiveEnrollment(NoneV)
         IN IF found.t = "raise" THEN found
            ELSE Dict([active_enrollment |-> with_faction_counts(found)])

\* Organization.objects.order_by("id").first()
first_by_id(table) ==
    IF table = {} THEN NoneV
    ELSE CHOOSE row \in table : \A other \in table : row.a.id.v <= other.a.id.v

\* user_profile that hands on whatever get_profile() gave
user_profile_no_placeholder(req, orgs) ==
    IF ~Truthy(req.user.a.is_authenticated) THEN Dict([user_profile |-> NoneV])
    ELSE Dict([user_profile |-> req.user.a.profile])

\* user_profile(request); get_profile() returns the profile attribute
user_profile(req, orgs) ==
    IF ~Truthy(req.user.a.is_authenticated) THEN Dict([user_profile |-> NoneV])
    ELSE LET profile == req.user.a.profile
         IN IF Truthy(profile) THEN Dict([user_profile |-> profile])
            ELSE Dict([user_profile |->
                         Obj([slug |-> Str(""),
                              organization |-> first_by_id(orgs),
                              user |-> req.user])])

MaxOrganizationId == 3

OrganizationRow(id) == Obj([id |-> PyInt(id)])

OrganizationTables == SUBSET {OrganizationRow(id) : id \in 1..MaxOrganizationId}

\* AnonymousUser and users as user.models.User gives them
RequestUsers ==
    {Obj([is_authenticated |-> Bool(FALSE), is_superuser |-> Bool(FALSE),
          id |-> NoneV, profile |-> NoneV])}
    \cup {Obj([is_authenticated |-> Bool(TRUE), is_superuser |-> Bool(su),
               id |-> PyInt(id), profile |-> profile]) :
            su \in BOOLEAN, id \in {1, 2},
            profile \in {NoneV, Obj([slug |-> Str("pat-doe"),
                                     organization |-> OrganizationRow(2)])}}

\* request.session: without the key, or holding None or a stored id
Sessions ==
    {EmptyDict} \cup {[active_enrollment_id |-> value] : value \in {NoneV, PyInt(1), PyInt(2), PyInt(3)}}

ActiveEnrollmentRow(id, user_id, faction_enrollment) ==
    Obj([id |-> PyInt(id), user_id |-> PyInt(user_id),
         faction_enrollment |-> faction_enrollment])

\* rows with a primary key and one row per user at most
ActiveEnrollmentTables ==
    LET fe == Obj([faction |-> Obj([id |-> PyInt(7)])])
        pool == {ActiveEnrollmentRow(1, 1, NoneV), ActiveEnrollmentRow(1, 2, fe),
                 ActiveEnrollmentRow(2, 1, fe), ActiveEnrollmentRow(2, 2, NoneV)}
    IN {table \in SUBSET pool :
          \A r1, r2 \in table :
             (r1.a.id = r2.a.id \/ r1.a.user_id = r2.a.user_id) => r1 = r2}

InitContext ==
    /\ phase = "context"
    /\ request \in {[user |-> u, session |-> se] : u \in RequestUsers, se \in Sessions}
    /\ enrollments \in ActiveEnrollmentTables
    /\ organizations \in OrganizationTables
    /\ context = Pending
    /\ IdleExcept("context")

\* the active_enrollment context processor runs on the request
RunActiveEnrollment ==
    /\ phase = "context"
    /\ context = Pending
    /\ context' = [processor |-> "active_enrollment",
                   value |-> active_enrollment(request, enrollments)]
    /\ UNCHANGED <<phase, request, enrollments, organizations>>
    /\ Frame("context")

\* the user_profile context processor runs on the request
RunUserProfile ==
    /\ phase = "context"
    /\ context = Pending
    /\ context' = [processor |-> "user_profile",
                   value |-> user_profile(request, organizations)]
    /\ UNCHANGED <<phase, request, enrollments, organizations>>
    /\ Frame("context")

SpecContext == InitContext /\ [][RunActiveEnrollment \/ RunUserProfile]_vars

---------------------------------------------------------------------------
(* Properties of the context processors.                                   *)

Ran(processor) ==
    /\ phase = "context"
    /\ context # Pending
    /\ context.processor = processor

SessionId == dget(request.session, "active_enrollment_id", NoneV)

HasUserRow == \E row \in enrollments : row.a.user_id = request.user.a.id

\* C12: for an authenticated non-superuser with no active_enrollment_id in
\* the session and no ActiveEnrollment row, active_enrollment does not raise
\* and returns a placeholder ActiveEnrollment with that user's id as user_id.
C12_PlaceholderWhenRecordMissing ==
    ( /\ Ran("active_enrollment")
      /\ Truthy(request.user.a.is_authenticated)
      /\ ~Truthy(request.user.a.is_superuser)
      /\ ~Truthy(SessionId)
      /\ ~HasUserRow )
    => /\ context.value.t = "dict"
       /\ context.value.a.active_enrollment.a.id = NoneV
       /\ context.value.a.active_enrollment.a.user_id = request.user.a.id

EnrollmentReturned ==
    /\ context.value.t = "dict"
    /\ "active_enrollment" \in DOMAIN context.value.a

\* C13: a superuser gets no active_enrollment key; otherwise a session
\* active_enrollment_id decides alone (the record with that id, never the
\* user-keyed one), and the user-keyed record is returned only when the
\* session holds no id.
C13_SessionIdBeforeUserLookup ==
    Ran("active_enrollment") =>
        /\ Truthy(request.user.a.is_superuser) => context.value = Dict(EmptyDict)
        /\ (~Truthy(request.user.a.is_superuser) /\ Truthy(SessionId)) =>
              /\ (\E row \in enrollments : row.a.id = SessionId) => EnrollmentReturned
              /\ EnrollmentReturned =>
                    context.value.a.active_enrollment.a.id = SessionId
        /\ ( /\ ~Truthy(request.user.a.is_superuser)
             /\ ~Truthy(SessionId)
             /\ Truthy(request.user.a.is_authenticated)
             /\ HasUserRow )
           => /\ EnrollmentReturned
              /\ context.value.a.active_enrollment.a.id # NoneV
              /\ context.value.a.active_enrollment.a.user_id = request.user.a.id

\* the session names the record of another user while the request user has a
\* record of their own: the session's record came back
C13_Witness ==
    /\ Ran("active_enrollment")
    /\ Truthy(SessionId)
    /\ \E row \in enrollments :
          row.a.user_id = request.user.a.id /\ row.a.id # SessionId
    /\ EnrollmentReturned
    /\ context.value.a.active_enrollment.a.id = SessionId
    /\ context.value.a.active_enrollment.a.user_id # request.user.a.id

ProfileValue == context.value.a.user_profile

\* C14: user_profile gives None to an unauthenticated user, the profile when
\* get_profile() yields one, and otherwise a placeholder with slug "", the
\* request user and the organization of smallest id (None without any); an
\* authenticated user always gets a value that has slug and organization.
C14_UserProfileOrPlaceholder ==
    Ran("user_profile") =>
        /\ context.value.t = "dict"
        /\ ~Truthy(request.user.a.is_authenticated) => ProfileValue = NoneV
        /\ (Truthy(request.user.a.is_authenticated) /\ request.user.a.profile # NoneV)
              => ProfileValue = request.user.a.profile
        /\ (Truthy(request.user.a.is_authenticated) /\ request.user.a.profile = NoneV)
              => /\ ProfileValue.t = "obj"
                 /\ ProfileValue.a.slug = Str("")
                 /\ ProfileValue.a.user = request.user
                 /\ IF organizations = {} THEN ProfileValue.a.organization = NoneV
                    ELSE /\ ProfileValue.a.organization \in organizations
                         /\ \A org \in organizations :
                               ProfileValue.a.organization.a.id.v <= org.a.id.v
        /\ Truthy(request.user.a.is_authenticated)
              => /\ ProfileValue.t = "obj"
                 /\ {"slug", "organization"} \subseteq DOMAIN ProfileValue.a

\* a user without profile, two organizations, neither with id 1: the
\* placeholder carries the one of smaller id
C14_Witness ==
    /\ Ran("user_profile")
    /\ Truthy(request.user.a.is_authenticated)
    /\ request.user.a.profile = NoneV
    /\ organizations = {OrganizationRow(2), OrganizationRow(3)}
    /\ ProfileValue.a.slug = Str("")
    /\ ProfileValue.a.organization = OrganizationRow(2)

---------------------------------------------------------------------------
(* mixins/views.py: OrgScopedMixin, FacilityScopedMixin, FactionScopedMixin *)

\* the entity tables: two rows each, found by slug
Entity(model, slug) == Obj([model |-> model, slug |-> Str(slug)])

EntityTable(model) == {Entity(model, "alpha"), Entity(model, "beta")}

\* django.shortcuts.get_object_or_404(Model, slug=slug)
get_object_or_404(model, slug) ==
    LET hits == {e \in EntityTable(model) : e.a.slug = slug}
    IN IF hits = {} THEN Raised("Http404") ELSE CHOOSE e \in hits : TRUE

\* org_kwarg / facility_kwarg / faction_kwarg, the model and the filtered field
ScopedMixins ==
    [OrgScopedMixin |->
        [kwarg |-> "organization_slug", model |-> "Organization", field |-> "organization"],
     FacilityScopedMixin |->
        [kwarg |-> "facility_slug", model |-> "Facility", field |-> "facility"],
     FactionScopedMixin |->
        [kwarg |-> "faction_slug", model |-> "Faction", field |-> "faction"]]

\* get_scope_org / get_scope_facility / get_scope_faction, all three reading
\* the fallback off the user's profile
get_scope_via_profile(mixin, v) ==
    LET slug == dget(v.kwargs, ScopedMixins[mixin].kwarg, NoneV)
    IN IF Truthy(slug) THEN get_object_or_404(ScopedMixins[mixin].model, slug)
       ELSE LET profile ==
                  IF mixin = "FacilityScopedMixin"
                  THEN getattr(v.user, "facultyprofile_profile", NoneV)
                  ELSE IF mixin = "FactionScopedMixin"
                  THEN getattr(v.user, "leaderprofile_profile", NoneV)
                  ELSE IF Truthy(getattr(v.user, "leaderprofile_profile", NoneV))
                  THEN getattr(v.user, "leaderprofile_profile", NoneV)
                  ELSE getattr(v.user, "facultyprofile_profile", NoneV)
            IN getattr(profile, ScopedMixins[mixin].field, NoneV)

\* get_scope_org / get_scope_facility / get_scope_faction
get_scope(mixin, v) ==
    LET slug == dget(v.kwargs, ScopedMixins[mixin].kwarg, NoneV)
    IN IF Truthy(slug) THEN get_object_or_404(ScopedMixins[mixin].model, slug)
       ELSE CASE mixin = "OrgScopedMixin" ->
                    getattr(v.user, "organization", NoneV)
              [] mixin = "FacilityScopedMixin" ->
                    getattr(getattr(v.user, "facultyprofile_profile", NoneV),
                            "facility", NoneV)
              [] mixin = "FactionScopedMixin" ->
                    getattr(getattr(v.user, "leaderprofile_profile", NoneV),
                            "faction", NoneV)

\* qs.filter(field=entity)
filter(qs, field, entity) ==
    [qs EXCEPT !.rows = {row \in qs.rows : row[field] = entity}]

\* get_queryset of the three mixins; super().get_queryset() is v.base
get_queryset(mixin, v) ==
    LET qs == v.base
        scope == get_scope(mixin, v)
    IN IF scope.t = "raise" THEN scope
       ELSE IF Truthy(scope) /\ ScopedMixins[mixin].field \in qs.model
       THEN filter(qs, ScopedMixins[mixin].field, scope)
       ELSE qs

\* the kwargs the URL route hands the view
ScopedKwargs ==
    {EmptyDict} \cup
    {(k :> Str(slug)) : k \in {"organization_slug", "facility_slug", "faction_slug"},
                        slug \in {"", "alpha", "beta", "ghost"}}

ScopedProfiles ==
    {Obj([organization |-> Entity("Organization", o), facility |-> f]) :
        o \in {"alpha", "beta"},
        f \in {NoneV, Entity("Facility", "alpha"), Entity("Facility", "beta")}}
    \cup
    {Obj([organization |-> Entity("Organization", o), faction |-> f]) :
        o \in {"alpha", "beta"},
        f \in {NoneV, Entity("Faction", "alpha"), Entity("Faction", "beta")}}

\* AnonymousUser, users without profile, faculty and leaders; the user object
\* itself has an organization attribute or has none
ScopedUsers ==
    LET own == {EmptyDict, [organization |-> NoneV],
                [organization |-> Entity("Organization", "alpha")]}
    IN {Obj(o) : o \in own}
       \cup {Obj(o @@ [facultyprofile_profile |-> p]) :
                o \in own, p \in {q \in ScopedProfiles : "facility" \in DOMAIN q.a}}
       \cup {Obj(o @@ [leaderprofile_profile |-> p]) :
                o \in own, p \in {q \in ScopedProfiles : "faction" \in DOMAIN q.a}}

\* the base querysets: a model with some of the scope fields, and rows of it
BaseQuerysets ==
    LET models == {{"organization", "facility", "faction"}, {"organization"},
                   {"facility", "faction"}, {}}
        full == {[id |-> 1, organization |-> Entity("Organization", "alpha"),
                  facility |-> Entity("Facility", "alpha"),
                  faction |-> Entity("Faction", "alpha")],
                 [id |-> 2, organization |-> Entity("Organization", "beta"),
                  facility |-> Entity("Facility", "beta"),
                  faction |-> Entity("Faction", "beta")],
                 [id |-> 3, organization |-> Entity("Organization", "alpha"),
                  facility |-> Entity("Facility", "beta"),
                  faction |-> NoneV]}
    IN {[t |-> "queryset", model |-> fields,
         rows |-> {[f \in fields \cup {"id"} |-> row[f]] : row \in chosen}] :
            fields \in models, chosen \in SUBSET full}

InitScoped ==
    /\ phase = "scoped"
    /\ scoped_view \in
          {[mixin |-> m, kwargs |-> k, user |-> u, base |-> qs] :
              m \in DOMAIN ScopedMixins, k \in ScopedKwargs,
              u \in ScopedUsers, qs \in BaseQuerysets}
    /\ scoped_result = Pending
    /\ IdleExcept("scoped")

\* view.get_queryset()
GetQueryset ==
    /\ phase = "scoped"
    /\ scoped_result = Pending
    /\ scoped_result' = get_queryset(scoped_view.mixin, scoped_view)
    /\ UNCHANGED <<phase, scoped_view>>
    /\ Frame("scoped")

SpecScoped == InitScoped /\ [][GetQueryset]_vars

---------------------------------------------------------------------------
(* Properties of the scoped mixins.                                        *)

ScopedDone == phase = "scoped" /\ scoped_result # Pending

ScopeKwarg == dget(scoped_view.kwargs, ScopedMixins[scoped_view.mixin].kwarg, NoneV)

ScopeField == ScopedMixins[scoped_view.mixin].field

\* the entities of the mixin's model that the URL kwarg names
KwargEntities ==
    {e \in EntityTable(ScopedMixins[scoped_view.mixin].model) : e.a.slug = ScopeKwarg}

\* the profile of the request user, whichever kind it is
ProfileOfUser ==
    IF "leaderprofile_profile" \in DOMAIN scoped_view.user.a
    THEN scoped_view.user.a.leaderprofile_profile
    ELSE IF "facultyprofile_profile" \in DOMAIN scoped_view.user.a
    THEN scoped_view.user.a.facultyprofile_profile
    ELSE NoneV

\* the scope attribute on the user's profile
ProfileScope ==
    IF ProfileOfUser # NoneV /\ ScopeField \in DOMAIN ProfileOfUser.a
    THEN ProfileOfUser.a[ScopeField]
    ELSE NoneV

\* the attribute each mixin reads when the URL names no entity
FallbackScope ==
    LET u == scoped_view.user.a
    IN CASE scoped_view.mixin = "OrgScopedMixin" ->
                IF "organization" \in DOMAIN u THEN u.organization ELSE NoneV
         [] scoped_view.mixin = "FacilityScopedMixin" ->
                IF "facultyprofile_profile" \in DOMAIN u
                THEN u.facultyprofile_profile.a.facility ELSE NoneV
         [] scoped_view.mixin = "FactionScopedMixin" ->
                IF "leaderprofile_profile" \in DOMAIN u
                THEN u.leaderprofile_profile.a.faction ELSE NoneV

\* the rows of the base queryset whose scope foreign key is the entity, or
\* the base queryset as it is without an entity or without the field
ScopedTo(entity) ==
    IF entity # NoneV /\ ScopeField \in scoped_view.base.model
    THEN scoped_result.t = "queryset"
         /\ scoped_result.rows =
               {row \in scoped_view.base.rows : row[ScopeField] = entity}
    ELSE scoped_result = scoped_view.base

\* C18 as stated: the entity comes from the URL kwarg when present and
\* otherwise from the attribute on the user's profile; get_queryset returns
\* exactly the rows whose scope foreign key is that entity, and the base
\* queryset unchanged when there is no entity or the model lacks the field.
C18_ScopeFromKwargElseProfile ==
    ScopedDone =>
        /\ (Truthy(ScopeKwarg) /\ KwargEntities # {}) =>
              \E e \in KwargEntities : ScopedTo(e)
        /\ ~Truthy(ScopeKwarg) => ScopedTo(ProfileScope)

\* C18 amended: the entity comes from the URL kwarg when present (Http404
\* when no entity has that slug) and otherwise from request.user.organization
\* (OrgScopedMixin), request.user.facultyprofile_profile.facility
\* (FacilityScopedMixin) or request.user.leaderprofile_profile.faction
\* (FactionScopedMixin); get_queryset returns exactly the rows whose scope
\* foreign key is that entity, and the base queryset unchanged when the
\* entity is None or the model lacks the field.
C18_ScopeFromKwargElseMixinAttribute ==
    ScopedDone =>
        /\ (Truthy(ScopeKwarg) /\ KwargEntities # {}) =>
              \E e \in KwargEntities : ScopedTo(e)
        /\ (Truthy(ScopeKwarg) /\ KwargEntities = {}) =>
              scoped_result = Raised("Http404")
        /\ ~Truthy(ScopeKwarg) => ScopedTo(FallbackScope)

\* OrgScopedMixin without URL kwarg: the user object carries organization
\* alpha, the profile organization beta; the rows of alpha came back
C18_Witness ==
    /\ ScopedDone
    /\ scoped_view.mixin = "OrgScopedMixin"
    /\ scoped_view.kwargs = EmptyDict
    /\ FallbackScope = Entity("Organization", "alpha")
    /\ ProfileScope = Entity("Organization", "beta")
    /\ Cardinality(scoped_view.base.rows) = 3
    /\ scoped_result.t = "queryset"
    /\ {row.id : row \in scoped_result.rows} = {1, 3}

---------------------------------------------------------------------------
(* management/commands/seed_test_data.py: Command.handle.                  *)

\* the statements of TestDataBuilder.build, in order
BuildSteps ==
    <<"_create_organizations", "_create_facilities_and_departments",
      "_create_quarters", "_create_factions", "_create_courses",
      "_create_organization_enrollments", "_create_facility_enrollments",
      "_create_facility_classes", "_create_users_and_profiles",
      "QuartersWeekAvailability.objects.all().delete()",
      "_create_faction_enrollments", "_create_person_enrollments">>

\* what one statement of build writes: update_or_create leaves the step's
\* rows with the seeded values, the delete empties the reservations
run_step(step, db) ==
    IF step = "QuartersWeekAvailability.objects.all().delete()"
    THEN [db EXCEPT !.reservations = 0]
    ELSE [db EXCEPT !.seeded = @ \cup {step}, !.stale = @ \ {step}]

\* leaving the with block as if each write had been committed on its own
atomic_exit_autocommit(db, tx, raised) == tx

\* transaction.atomic().__exit__: commit, or roll back when an exception
\* leaves the block
atomic_exit(db, tx, raised) == IF raised THEN db ELSE tx

MaxReservations == 2

\* a fresh database, one seeded before, one seeded before and edited since
InitSeed ==
    /\ phase = "seed"
    /\ \E rows \in {[seeded |-> {}, stale |-> {}],
                      [seeded |-> {BuildSteps[i] : i \in DOMAIN BuildSteps} \
                                    {"QuartersWeekAvailability.objects.all().delete()"},
                       stale |-> {}],
                      [seeded |-> {"_create_organizations"},
                       stale |-> {"_create_factions", "_create_users_and_profiles"}]} :
         \E n \in 0..MaxReservations :
            seed_db = [seeded |-> rows.seeded, stale |-> rows.stale, reservations |-> n]
    /\ seed_tx = NoneV
    /\ seed_pc = [at |-> "start", step |-> 0]
    /\ seed_stdout = <<>>
    /\ seed_before = seed_db
    /\ IdleExcept("seed")

\* handle enters `with transaction.atomic():`
EnterAtomic ==
    /\ phase = "seed"
    /\ seed_pc.at = "start"
    /\ seed_tx' = seed_db
    /\ seed_pc' = [at |-> "build", step |-> 1]
    /\ UNCHANGED <<phase, seed_db, seed_stdout, seed_before>>
    /\ Frame("seed")

\* one statement of build runs to its end, logging as it goes
BuildStep ==
    /\ phase = "seed"
    /\ seed_pc.at = "build"
    /\ seed_pc.step <= Len(BuildSteps)
    /\ seed_tx' = run_step(BuildSteps[seed_pc.step], seed_tx)
    /\ seed_stdout' = Append(seed_stdout, BuildSteps[seed_pc.step])
    /\ seed_pc' = [seed_pc EXCEPT !.step = @ + 1]
    /\ UNCHANGED <<phase, seed_db, seed_before>>
    /\ Frame("seed")

\* a statement of build raises: the exception leaves the atomic block, which
\* rolls back, and then leaves handle
BuildStepRaises ==
    /\ phase = "seed"
    /\ seed_pc.at = "build"
    /\ seed_pc.step <= Len(BuildSteps)
    /\ seed_db' = atomic_exit(seed_db, seed_tx, TRUE)
    /\ seed_tx' = NoneV
    /\ seed_pc' = [seed_pc EXCEPT !.at = "raised"]
    /\ UNCHANGED <<phase, seed_stdout, seed_before>>
    /\ Frame("seed")

\* build returned: the atomic block commits
Commit ==
    /\ phase = "seed"
    /\ seed_pc.at = "build"
    /\ seed_pc.step = Len(BuildSteps) + 1
    /\ seed_db' = atomic_exit(seed_db, seed_tx, FALSE)
    /\ seed_tx' = NoneV
    /\ seed_pc' = [seed_pc EXCEPT !.at = "committed"]
    /\ UNCHANGED <<phase, seed_stdout, seed_before>>
    /\ Frame("seed")

\* self.stdout.write(self.style.SUCCESS("Seed data ready."))
WriteSuccess ==
    /\ phase = "seed"
    /\ seed_pc.at = "committed"
    /\ seed_stdout' = Append(seed_stdout, "Seed data ready.")
    /\ seed_pc' = [seed_pc EXCEPT !.at = "done"]
    /\ UNCHANGED <<phase, seed_db, seed_tx, seed_before>>
    /\ Frame("seed")

SpecSeed == InitSeed /\ [][EnterAtomic \/ BuildStep \/ BuildStepRaises \/ Commit \/ WriteSuccess]_vars

---------------------------------------------------------------------------
(* Properties of the seed command.                                         *)

SuccessWritten ==
    \E i \in DOMAIN seed_stdout : seed_stdout[i] = "Seed data ready."

\* the database a complete build leaves
FullySeeded ==
    /\ seed_db.seeded = {BuildSteps[i] : i \in DOMAIN BuildSteps} \
                           {"QuartersWeekAvailability.objects.all().delete()"}
    /\ seed_db.stale = {}
    /\ seed_db.reservations = 0

\* C19: seed_test_data is all-or-nothing: when a step of build raises, the
\* database is what it was before the command ran (no upserted row, the
\* QuartersWeekAvailability rows back), nothing is visible before the end,
\* and "Seed data ready." is written only once the transaction has committed.
C19_SeedAllOrNothing ==
    phase = "seed" =>
        /\ seed_pc.at = "raised" => seed_db = seed_before /\ ~SuccessWritten
        /\ seed_pc.at \in {"start", "build"} => seed_db = seed_before
        /\ SuccessWritten =>
              /\ seed_pc.at = "done"
              /\ seed_tx = NoneV
              /\ FullySeeded

\* the build raised in its last step, after the upserts and after the
\* deletion of two reservations: the database is as before
C19_Witness ==
    /\ phase = "seed"
    /\ seed_pc = [at |-> "raised", step |-> Len(BuildSteps)]
    /\ seed_before.reservations = 2
    /\ seed_before.seeded = {}
    /\ seed_db = seed_before
    /\ Len(seed_stdout) = Len(BuildSteps) - 1

---------------------------------------------------------------------------
(* cache.py: cached(key, ttl, producer), called by concurrent requests on  *)
(* one key.                                                                *)

MaxClock == 3
MaxTtl == 2

\* the requests that call cached on the key
Callers == {"first", "second", "third"}

\* what a caller's producer can compute: any value, None included
Produces(caller) == {NoneV, Str(caller)}

\* cache.get(key): the stored value while it has not expired, else None
cache_get(entry, time) ==
    IF entry # NoneV /\ time < entry.expires THEN entry.value ELSE NoneV

\* cache.add(key, value, ttl): stores only when the key holds no live entry
cache_add(entry, value, timeout, time) ==
    IF entry # NoneV /\ time < entry.expires THEN entry
    ELSE [value |-> value, expires |-> time + timeout]

\* cache.set(key, value, ttl)
cache_set(entry, value, timeout, time) ==
    [value |-> value, expires |-> time + timeout]

InitCache ==
    /\ phase = "cache"
    /\ cache = NoneV
    /\ now = 0
    /\ ttl \in 1..MaxTtl
    /\ calls = [c \in Callers |->
                  [pc |-> "start", value |-> NoneV, found |-> NoneV, produced |-> FALSE]]
    /\ stores = <<>>
    /\ IdleExcept("cache")

\* lines 22-24: value = cache.get(key); a value that is not None is returned
Get(c) ==
    /\ phase = "cache"
    /\ calls[c].pc = "start"
    /\ LET value == cache_get(cache, now)
       IN calls' = [calls EXCEPT ![c] =
                      [@ EXCEPT !.value = value,
                                !.found = IF cache # NoneV /\ now < cache.expires
                                          THEN cache ELSE NoneV,
                                !.pc = IF value # NoneV THEN "returned" ELSE "missed"]]
    /\ UNCHANGED <<phase, cache, now, ttl, stores>>
    /\ Frame("cache")

\* line 25: value = producer()
Produce(c) ==
    /\ phase = "cache"
    /\ calls[c].pc = "missed"
    /\ \E value \in Produces(c) :
          calls' = [calls EXCEPT ![c] =
                      [@ EXCEPT !.value = value, !.produced = TRUE, !.pc = "computed"]]
    /\ UNCHANGED <<phase, cache, now, ttl, stores>>
    /\ Frame("cache")

\* lines 26-27: cache.set(key, value, ttl); return value
Set(c) ==
    /\ phase = "cache"
    /\ calls[c].pc = "computed"
    /\ cache' = cache_set(cache, calls[c].value, ttl, now)
    /\ stores' = Append(stores, [by |-> c, value |-> calls[c].value])
    /\ calls' = [calls EXCEPT ![c].pc = "returned"]
    /\ UNCHANGED <<phase, now, ttl>>
    /\ Frame("cache")

\* time passes at the cache service
Tick ==
    /\ phase = "cache"
    /\ now < MaxClock
    /\ now' = now + 1
    /\ UNCHANGED <<phase, cache, ttl, calls, stores>>
    /\ Frame("cache")

SpecCache == InitCache /\ [][(\E c \in Callers : Get(c) \/ Produce(c) \/ Set(c)) \/ Tick]_vars

---------------------------------------------------------------------------
(* Properties of the cache helper.                                         *)

\* the caller ran its producer and has returned
ReturnedOwn(c) == calls[c].pc = "returned" /\ calls[c].produced

\* the caller's cache.get came while the key held an entry within its TTL
CalledWithinTtl(c) == calls[c].pc # "start" /\ calls[c].found # NoneV

\* C20 as stated: callers that miss on the same key each run their producer and return
\* the value their own producer computed; the key then holds the value of
\* the store that happened last; and a call made while the stored entry is
\* within its TTL returns the stored value without running the producer.
C20_LastStoreWinsAndLaterCallHits ==
    phase = "cache" =>
        /\ \A c \in Callers :
              ReturnedOwn(c) =>
                 \E i \in DOMAIN stores :
                    stores[i] = [by |-> c, value |-> calls[c].value]
        /\ stores # <<>> =>
              cache # NoneV /\ cache.value = stores[Len(stores)].value
        /\ \A c \in Callers :
              CalledWithinTtl(c) =>
                 /\ calls[c].pc = "returned"
                 /\ ~calls[c].produced
                 /\ calls[c].value = calls[c].found.value

\* C20 amended: callers that miss on the same key each run their producer
\* and return the value their own producer computed; the key then holds the
\* value of the store that happened last; a call made while the stored entry
\* is within its TTL returns the stored value without running the producer
\* when that value is not None, and runs the producer again when it is None.
C20_LastStoreWinsAndLaterCallHitsNotNone ==
    phase = "cache" =>
        /\ \A c \in Callers :
              ReturnedOwn(c) =>
                 \E i \in DOMAIN stores :
                    stores[i] = [by |-> c, value |-> calls[c].value]
        /\ stores # <<>> =>
              cache # NoneV /\ cache.value = stores[Len(stores)].value
        /\ \A c \in Callers :
              CalledWithinTtl(c) =>
                 IF calls[c].found.value # NoneV
                 THEN /\ calls[c].pc = "returned"
                      /\ ~calls[c].produced
                      /\ calls[c].value = calls[c].found.value
                 ELSE calls[c].pc = "returned" => calls[c].produced

\* first and second both missed on the empty key and both ran their
\* producer; second stored last, so the key holds its value, and third,
\* calling within the TTL, returned that value without producing
C20_Witness ==
    /\ phase = "cache"
    /\ stores = <<[by |-> "first", value |-> Str("first")],
                  [by |-> "second", value |-> Str("second")]>>
    /\ calls["first"].found = NoneV /\ calls["second"].found = NoneV
    /\ calls["first"].pc = "returned" /\ calls["first"].value = Str("first")
    /\ calls["second"].pc = "returned" /\ calls["second"].value = Str("second")
    /\ cache.value = Str("second")
    /\ CalledWithinTtl("third")
    /\ calls["third"].pc = "returned"
    /\ ~calls["third"].produced
    /\ calls["third"].value = Str("second")

---------------------------------------------------------------------------
(* Helper functions called on their own: flatten_definitions               *)
(* (menu_registry.py), ActionUrlMixin.get_url (mixins/tables.py),          *)
(* BreadcrumbMiddleware.generate_breadcrumbs (middleware.py).              *)

MaxDefinitions == 2

\* menu definitions as MENU_REGISTRY nests them, with keys that repeat: at
\* the top level, among siblings, under a parent of the same key, under a
\* parent without key
NestedDefinitionPool ==
    {[key |-> "reports", label |-> "Reports"],
     [key |-> "reports", label |-> "My Reports",
      children |-> <<[key |-> "roster", label |-> "Roster"]>>],
     [key |-> "roster", label |-> "Team",
      children |-> <<[key |-> "reports", label |-> "Weekly"],
                     [key |-> "reports", label |-> "Monthly"]>>],
     [label |-> "Section",
      children |-> <<[key |-> "tools", label |-> "Tools",
                      children |-> <<[key |-> "reports", label |-> "Deep"]>>]>>],
     [key |-> "", label |-> "Blank"],
     [key |-> "tools", label |-> "Toolbox",
      children |-> <<[key |-> "tools", label |-> "Inner Toolbox"]>>],
     [key |-> "roster", label |-> "Roster 2"],
     [key |-> "help", label |-> "Help", children |-> <<>>]}

\* get_nested_attr(obj, attr_path), for the attribute paths a kwargs
\* configuration names here (split on "__"); an AttributeError gives None
get_nested_attr(obj, attr_path) ==
    resolve_hops(obj, CASE attr_path = "faction__slug" -> <<"faction", "slug">>
                        [] OTHER -> <<attr_path>>)

\* build_url_kwargs(kwargs_config, record, context), ctx being the context
build_url_kwargs(kwargs_config, record, ctx) ==
    IF kwargs_config = EmptyDict THEN EmptyDict
    ELSE IF record # NoneV
    THEN [key \in DOMAIN kwargs_config |-> get_nested_attr(record, kwargs_config[key])]
    ELSE IF ctx = NoneV THEN Raised("AttributeError")
    ELSE [key \in DOMAIN kwargs_config |-> dget(ctx.a, key, NoneV)]

\* get_url(action, record, context) of a table with the given urls,
\* url_namespace and URLconf: the reversed URL, "#" on NoReverseMatch
get_url(table, action, record, ctx) ==
    LET action_url_info == dget(table.urls, action, EmptyDict)
        url_name == dget(action_url_info, "name", table.url_namespace \o ":" \o action)
        kwargs_config == dget(action_url_info, "kwargs", EmptyDict)
        kwargs == build_url_kwargs(kwargs_config, record, ctx)
    IN IF kwargs = Raised("AttributeError") THEN kwargs
       ELSE IF /\ url_name \in DOMAIN table.urlconf
               /\ DOMAIN kwargs = table.urlconf[url_name]
       THEN [t |-> "url", name |-> url_name, kwargs |-> kwargs]
       ELSE Str("#")

MaxSegments == 2

\* str.capitalize() on the path segments used here
capitalize(word) ==
    CASE word = "factions" -> "Factions"
      [] word = "faction" -> "Faction"
      [] word = "facility" -> "Facility"
      [] word = "eagle-patrol" -> "Eagle-patrol"
      [] OTHER -> word

\* singlize_word(word): p.singular_noun(word) or word
singlize_word(word) ==
    CASE word = "factions" -> "faction"
      [] OTHER -> word

\* pluralize_word(word): p.plural(word)
pluralize_word(word) ==
    CASE word = "Facility" -> "Facilities"
      [] word = "" -> ""
      [] OTHER -> word \o "s"

\* should_skip_pluralization(segment, path, organization_labels); path is the
\* list the segment was taken from
should_skip_pluralization(segment, path, organization_labels) ==
    \/ \E i \in DOMAIN path : path[i] = segment
    \/ (singlize_word(segment) \o "_label") \in DOMAIN organization_labels

RECURSIVE breadcrumbs_loop(_, _, _, _, _)
\* for segment in path, from the given segments on, with url and breadcrumbs
\* as built so far
breadcrumbs_loop(segments, path, organization_labels, url, breadcrumbs) ==
    IF segments = <<>> THEN breadcrumbs
    ELSE LET segment == Head(segments)
             url1 == url \o "/" \o segment
             label == dget(organization_labels, segment \o "_label", capitalize(segment))
             label_name == IF should_skip_pluralization(segment, path, organization_labels)
                           THEN label ELSE pluralize_word(label)
         IN breadcrumbs_loop(Tail(segments), path, organization_labels, url1,
                             Append(breadcrumbs, [name |-> label_name, url |-> url1]))

\* generate_breadcrumbs(request, context_data); path is request.path stripped
\* of "/" and split on "/", so the root path is the one segment ""
generate_breadcrumbs(path, context_data) ==
    breadcrumbs_loop(path, path, dget(context_data, "organization_labels", EmptyDict),
                     "", <<[name |-> "Home", url |-> "/"]>>)

\* the calls: flatten_definitions on nested definitions; get_url on tables
\* with configured and defaulted actions, on deployments with and without
\* the routes, with and without a record and a context; generate_breadcrumbs
\* on paths with and without repeated segments and label overrides
Calls ==
    {[fn |-> "flatten_definitions", definitions |-> d] :
        d \in SeqsUpTo(NestedDefinitionPool, MaxDefinitions)}
    \cup
    {[fn |-> "get_url", table |-> [urls |-> urls, url_namespace |-> "factions",
                                   urlconf |-> urlconf_],
      action |-> action, record |-> record, context |-> ctx] :
        urls \in {EmptyDict,
                  [add |-> [name |-> "factions:new", kwargs |-> EmptyDict],
                   show |-> [name |-> "factions:show", kwargs |-> [slug |-> "slug"]],
                   manage |-> [kwargs |-> [slug |-> "faction__slug"]]]},
        urlconf_ \in {EmptyDict,
                      ("factions:new" :> {}) @@ ("factions:show" :> {"slug"})
                      @@ ("factions:manage" :> {"slug"}) @@ ("factions:add" :> {})},
        action \in {"add", "show", "manage"},
        record \in {NoneV, Obj([slug |-> Str("eagle-patrol")]),
                    Obj([faction |-> Obj([slug |-> Str("eagle-patrol")])])},
        ctx \in {NoneV, Dict(EmptyDict), Dict([slug |-> Str("eagle-patrol")])}}
    \cup
    {[fn |-> "generate_breadcrumbs", path |-> path, context_data |-> context_data] :
        path \in {<<"">>} \cup (SeqsUpTo({"factions", "faction", "facility", "eagle-patrol"},
                                         MaxSegments) \ {<<>>}),
        context_data \in {EmptyDict}
            \cup {[organization_labels |-> labels] :
                    labels \in {EmptyDict, [faction_label |-> "Troop"],
                                [factions_label |-> "Troops"],
                                [facility_label |-> "Camp", faction_label |-> "Troop"]}}}

InitCall ==
    /\ phase = "call"
    /\ call \in Calls
    /\ returned = Pending
    /\ IdleExcept("call")

\* flatten_definitions(definitions)
CallFlattenDefinitions ==
    /\ phase = "call"
    /\ returned = Pending
    /\ call.fn = "flatten_definitions"
    /\ returned' = flatten_definitions(call.definitions)
    /\ UNCHANGED <<phase, call>>
    /\ Frame("call")

\* table.get_url(action, record=record, context=context)
CallGetUrl ==
    /\ phase = "call"
    /\ returned = Pending
    /\ call.fn = "get_url"
    /\ returned' = get_url(call.table, call.action, call.record, call.context)
    /\ UNCHANGED <<phase, call>>
    /\ Frame("call")

\* self.generate_breadcrumbs(request, labels_context)
CallGenerateBreadcrumbs ==
    /\ phase = "call"
    /\ returned = Pending
    /\ call.fn = "generate_breadcrumbs"
    /\ returned' = generate_breadcrumbs(call.path, call.context_data)
    /\ UNCHANGED <<phase, call>>
    /\ Frame("call")

SpecCall ==
    InitCall /\ [][CallFlattenDefinitions \/ CallGetUrl \/ CallGenerateBreadcrumbs]_vars

---------------------------------------------------------------------------
(* Properties of flatten_definitions.                                      *)

Returned(fn) == phase = "call" /\ returned # Pending /\ call.fn = fn

RECURSIVE VisitOrder(_)
\* the definitions in the order of a walk that takes each list in order and
\* a parent before its children
VisitOrder(definitions) ==
    IF definitions = <<>> THEN <<>>
    ELSE <<Head(definitions)>>
         \o VisitOrder(IF "children" \in DOMAIN Head(definitions)
                       THEN Head(definitions).children ELSE <<>>)
         \o VisitOrder(Tail(definitions))

HasKey(definition) == "key" \in DOMAIN definition /\ definition.key # ""

\* C25: the index flatten_definitions returns has every key found at any
\* depth, and maps a key that occurs more than once to the definition
\* visited last (lists in order, a parent before its children).
C25_FlattenIndexLastWins ==
    Returned("flatten_definitions") =>
        LET visited == VisitOrder(call.definitions)
            keyed == {i \in DOMAIN visited : HasKey(visited[i])}
        IN /\ DOMAIN returned = {visited[i].key : i \in keyed}
           /\ \A i \in keyed :
                 (\A j \in keyed : visited[j].key = visited[i].key => j <= i)
                    => returned[visited[i].key] = visited[i]

\* C22: get_url never propagates a failure: for any action, with or without
\* a record and with or without a context, it returns the reversed URL or "#".
C22_GetUrlNeverRaises ==
    Returned("get_url") => returned = Str("#") \/ returned.t = "url"

\* C23: a segment with no label override, not appearing elsewhere in the
\* path and with no singular-form label override gets the pluralized
\* capitalized segment as its breadcrumb name; a segment meeting a skip
\* condition gets its override or capitalized form, not pluralized.
C23_BreadcrumbNames ==
    Returned("generate_breadcrumbs") =>
        LET path == call.path
            labels == dget(call.context_data, "organization_labels", EmptyDict)
        IN /\ Len(returned) = Len(path) + 1
           /\ \A i \in DOMAIN path :
                 LET segment == path[i]
                     name == returned[i + 1].name
                     override == (segment \o "_label") \in DOMAIN labels
                     elsewhere == \E j \in DOMAIN path : j # i /\ path[j] = segment
                     singular == (singlize_word(segment) \o "_label") \in DOMAIN labels
                 IN /\ (~override /\ ~elsewhere /\ ~singular)
                         => name = pluralize_word(capitalize(segment))
                    /\ (elsewhere \/ singular)
                         => name = dget(labels, segment \o "_label", capitalize(segment))

\* the key "reports" at the top level, then as two children of a later
\* definition: the index holds the second child
C25_Witness ==
    /\ Returned("flatten_definitions")
    /\ Len(call.definitions) = 2
    /\ call.definitions[1].label = "Reports"
    /\ call.definitions[2].label = "Team"
    /\ returned["reports"].label = "Monthly"
    /\ returned["roster"].label = "Team"

---------------------------------------------------------------------------
(* context_processors.py: build_dynamic_url, dynamic_menu                  *)

MaxRequests == 3

\* the role menus dynamic_menu imports from core.menus: lists of item dicts
\* with the keys build_dynamic_url and dynamic_menu read, "dynamic_params"
\* (parameter name to dotted attribute path from the user) and "sub_items"
RoleMenus ==
    [LEADER_MENU |-> <<
        [title |-> "Faction", url_name |-> "factions:show",
         dynamic_params |-> [slug |-> Str("leaderprofile.faction.slug")],
         sub_items |-> <<
            [title |-> "Roster", url_name |-> "factions:roster",
             dynamic_params |-> [slug |-> Str("leaderprofile.faction.slug")]] >>],
        [title |-> "Resources", url_name |-> "resources"] >>,
     LEADER_ADMIN_MENU |-> <<
        [title |-> "Manage Faction", url_name |-> "factions:manage",
         dynamic_params |-> [slug |-> Str("leaderprofile.faction.slug")]] >>,
     ATTENDEE_MENU |-> <<
        [title |-> "My Schedule", url_name |-> "attendees:schedule",
         dynamic_params |-> [slug |-> Str("attendeeprofile.slug")]] >>,
     FACULTY_MENU |-> <<
        [title |-> "Resources", url_name |-> "resources"] >>,
     FACULTY_ADMIN_MENU |-> <<
        [title |-> "Admin", url_name |-> "facultys:manage",
         dynamic_params |-> [note |-> NoneV]] >>,
     ORGANIZATION_FACULTY_MENU |-> <<
        [title |-> "Organization", url_name |-> "organizations:index"] >>]

\* path.split(".") on the strings a dynamic_params value takes here: the
\* paths of the menus, and a slug, which has no dot
split(path) ==
    CASE path = "leaderprofile.faction.slug" -> <<"leaderprofile", "faction", "slug">>
      [] path = "attendeeprofile.slug" -> <<"attendeeprofile", "slug">>
      [] OTHER -> <<path>>

\* the loop body of build_dynamic_url for one (key, path) of dynamic_params:
\* the value stored back under key
dynamic_param(path, u) ==
    IF Truthy(path) THEN resolve_hops(u, split(path.v)) ELSE NoneV

\* build_dynamic_url(item, user): the item dict after the call, which is the
\* dict the role menu holds
build_dynamic_url(item, u) ==
    IF "dynamic_params" \in DOMAIN item
    THEN [item EXCEPT !.dynamic_params =
            [key \in DOMAIN item.dynamic_params |->
                dynamic_param(item.dynamic_params[key], u)]]
    ELSE item

\* the body of "for item in menu" of dynamic_menu on one item
build_item(item, u) ==
    LET built == build_dynamic_url(item, u)
    IN IF "sub_items" \in DOMAIN built
       THEN [built EXCEPT !.sub_items =
               [i \in DOMAIN built.sub_items |-> build_dynamic_url(built.sub_items[i], u)]]
       ELSE built

\* the name of the list dynamic_menu copies for a user ("" for the [] default)
menu_name(u) ==
    LET user_type == u.a.user_type.v
        admin == Truthy(u.a.is_admin)
    IN CASE user_type = "FACULTY" /\ admin -> "FACULTY_ADMIN_MENU"
         [] user_type = "LEADER" /\ admin -> "LEADER_ADMIN_MENU"
         [] user_type = "FACULTY" -> "FACULTY_MENU"
         [] user_type = "ATTENDEE" -> "ATTENDEE_MENU"
         [] user_type = "LEADER" -> "LEADER_MENU"
         [] user_type = "ORGANIZATION_FACULTY" -> "ORGANIZATION_FACULTY_MENU"
         [] OTHER -> ""

\* dynamic_menu(request) with the role menus as they are: the role menus after
\* the call and the returned context.  list.copy() is shallow, so the items
\* the loop updates are the items of the role menu.
dynamic_menu(u, menus) ==
    IF ~Truthy(u.a.is_authenticated)
    THEN [menus |-> menus, returned |-> Dict([menu_items |-> <<>>])]
    ELSE IF "facultyprofile" \in DOMAIN u.a /\ u.a.facultyprofile.a.facility = NoneV
    THEN [menus |-> menus, returned |-> Raised("AttributeError")]
    ELSE IF menu_name(u) = ""
    THEN [menus |-> menus, returned |-> Dict([menu_items |-> <<>>])]
    ELSE LET menu == [i \in DOMAIN menus[menu_name(u)] |->
                         build_item(menus[menu_name(u)][i], u)]
         IN [menus |-> [menus EXCEPT ![menu_name(u)] = menu],
             returned |-> Dict([menu_items |-> menu])]

MenuUsers ==
    {Obj([is_authenticated |-> Bool(FALSE)])}
    \cup {Obj([is_authenticated |-> Bool(TRUE), user_type |-> Str("LEADER"),
               is_admin |-> Bool(b), leaderprofile |-> Obj([faction |-> f])]) :
            b \in BOOLEAN, f \in {NoneV, Obj([slug |-> Str("eagle-patrol")]),
                                   Obj([slug |-> Str("wolf-den")])}}
    \cup {Obj([is_authenticated |-> Bool(TRUE), user_type |-> Str("ATTENDEE"),
               is_admin |-> Bool(FALSE), attendeeprofile |-> Obj([slug |-> Str(s)])]) :
            s \in {"sam-roe", ""}}
    \cup {Obj([is_authenticated |-> Bool(TRUE), user_type |-> Str("FACULTY"),
               is_admin |-> Bool(b), facultyprofile |-> Obj([facility |-> f])]) :
            b \in BOOLEAN, f \in {NoneV, Obj([slug |-> Str("river-bend")])}}
    \cup {Obj([is_authenticated |-> Bool(TRUE), user_type |-> Str(ut),
               is_admin |-> Bool(FALSE)]) : ut \in {"ORGANIZATION_FACULTY", "OTHER"}}

InitDynamicMenu ==
    /\ phase = "dynamic_menu"
    /\ role_menus = RoleMenus
    /\ menu_user = NoneV
    /\ menu_items = Pending
    /\ served = 0
    /\ IdleExcept("dynamic_menu")

\* one request: the template engine calls dynamic_menu(request)
DynamicMenu(u) ==
    /\ phase = "dynamic_menu"
    /\ served < MaxRequests
    /\ role_menus' = dynamic_menu(u, role_menus).menus
    /\ menu_items' = dynamic_menu(u, role_menus).returned
    /\ menu_user' = u
    /\ served' = served + 1
    /\ UNCHANGED phase
    /\ Frame("dynamic_menu")

SpecDynamicMenu == InitDynamicMenu /\ [][\E u \in MenuUsers : DynamicMenu(u)]_vars

---------------------------------------------------------------------------
(* Properties of dynamic_menu.                                             *)

\* C24: menu building carries no state from one request to the next: what a
\* request gets is what it would get had no request been served before, and
\* the role menus are unchanged after any request.
C24_MenuIndependentOfEarlierRequests ==
    (phase = "dynamic_menu" /\ menu_items # Pending) =>
        /\ menu_items = dynamic_menu(menu_user, RoleMenus).returned
        /\ role_menus = RoleMenus

---------------------------------------------------------------------------
(* models/navigation.py: two requests adding a favorite for one user       *)

\* two requests of one user, each about to load the row and add its own key
InitToggle ==
    /\ phase = "toggle"
    /\ pref_row \in {List(s) : s \in SeqsUpTo(NavKeyPool, MaxStoredKeys)}
    /\ \E k1 \in NavKeyPool, k2 \in NavKeyPool :
          /\ k1 # k2
          /\ toggles = <<[key |-> k1, pc |-> "load", favorite_keys |-> NoneV],
                         [key |-> k2, pc |-> "load", favorite_keys |-> NoneV]>>
    /\ IdleExcept("toggle")

\* the request loads the user's NavigationPreference: its instance holds the
\* column as stored at that moment
LoadPreference(r) ==
    /\ phase = "toggle"
    /\ toggles[r].pc = "load"
    /\ toggles' = [toggles EXCEPT ![r].pc = "add", ![r].favorite_keys = pref_row]
    /\ UNCHANGED <<phase, pref_row>>
    /\ Frame("toggle")

\* preferences.add_favorite(key) on the loaded instance: save(update_fields=...)
\* writes the instance's list over the column
AddFavoriteAndSave(r) ==
    /\ phase = "toggle"
    /\ toggles[r].pc = "add"
    /\ \E new \in add_favorite(toggles[r].favorite_keys, toggles[r].key) :
          /\ toggles' = [toggles EXCEPT ![r].pc = "done", ![r].favorite_keys = new]
          /\ pref_row' = new
    /\ UNCHANGED phase
    /\ Frame("toggle")

SpecToggle ==
    InitToggle
    /\ [][\E r \in DOMAIN toggles : LoadPreference(r) \/ AddFavoriteAndSave(r)]_vars

\* C30: once two requests that loaded the same user's NavigationPreference and
\* called add_favorite with different keys have both completed, the persisted
\* favorite_keys contains both keys, whatever the interleaving.
C30_BothFavoritesPersisted ==
    (phase = "toggle" /\ \A r \in DOMAIN toggles : toggles[r].pc = "done") =>
        \A r \in DOMAIN toggles : toggles[r].key \in favorites_set(pref_row)

---------------------------------------------------------------------------
(* views/base.py, mixins/views.py, mixins/forms.py: form and delete views  *)

MaxSubmissions == 3

Flash(level, message) == [level |-> level, message |-> message]
Redirect(url) == [t |-> "redirect", url |-> url]

\* BaseViewMixin.get_success_url, get_success_url_params included; self has
\* no object field while self.object was never assigned
get_success_url(self) ==
    IF ~self.success_url_pattern THEN Raised("ImproperlyConfigured")
    ELSE LET params ==
               IF self.success_url_params THEN [slug |-> Str("configured")]
               ELSE IF "object" \notin DOMAIN self THEN Raised("AttributeError")
               ELSE IF self.object.t = "obj" /\ "slug" \in DOMAIN self.object.a
                    THEN [slug |-> self.object.a.slug]
               ELSE IF self.object.t = "obj" /\ "pk" \in DOMAIN self.object.a
                    THEN [pk |-> self.object.a.pk]
               ELSE Raised("ImproperlyConfigured")
         IN IF params = Raised("AttributeError") \/ params = Raised("ImproperlyConfigured")
            THEN params
            ELSE IF self.route_registered
            THEN [t |-> "url", name |-> "success_url_pattern", kwargs |-> params]
            ELSE Raised("ImproperlyConfigured")

\* BaseCreateView.form_valid and the form_valid methods super() reaches:
\* AjaxFormMixin, FormMessagesMixin, CreateView (form.save(), redirect)
form_valid(self) ==
    LET created == <<Flash("success", "Successfully created.")>>
        saved == [object |-> Obj([slug |-> Str("eagle-patrol")])] @@ self
    IN IF self.ajax
       THEN [flashes |-> created, writes |-> <<>>,
             response |-> IF get_success_url(self).t = "raise" THEN get_success_url(self)
                          ELSE [t |-> "json", success |-> TRUE, status |-> 200,
                                redirect_url |-> get_success_url(self)]]
       ELSE IF self.save_raises
       THEN [flashes |-> created, writes |-> <<>>, response |-> Raised("IntegrityError")]
       ELSE IF get_success_url(saved).t = "raise"
       THEN [flashes |-> created, writes |-> <<"save">>,
             response |-> get_success_url(saved)]
       ELSE [flashes |-> created \o <<Flash("success", "Successfully created.")>>,
             writes |-> <<"save">>, response |-> Redirect(get_success_url(saved))]

\* BaseCreateView.form_invalid and the form_invalid methods super() reaches:
\* AjaxFormMixin, FormMessagesMixin, CreateView (the form rendered again)
form_invalid(self) ==
    LET failed == <<Flash("error", "There was an error creating the item.")>>
    IN IF self.ajax
       THEN [flashes |-> failed, writes |-> <<>>,
             response |-> [t |-> "json", success |-> FALSE, status |-> 400]]
       ELSE [flashes |-> failed \o <<Flash("error", "There was an error creating the item.")>>,
             writes |-> <<>>, response |-> [t |-> "render"]]

\* BaseDeleteView.delete; super().delete is get_object(), get_success_url(),
\* object.delete(), redirect
delete(self) ==
    LET found == [object |-> Obj([slug |-> Str("eagle-patrol")])] @@ self
        raised_with == IF ~self.object_exists THEN self ELSE found
        handler == [flashes |-> <<Flash("error", "There was an error deleting the item.")>>,
                    writes |-> <<>>,
                    response |-> IF get_success_url(raised_with).t = "raise"
                                 THEN get_success_url(raised_with)
                                 ELSE Redirect(get_success_url(raised_with))]
    IN IF ~self.object_exists THEN handler
       ELSE IF get_success_url(found).t = "raise" THEN handler
       ELSE IF self.delete_raises THEN handler
       ELSE [flashes |-> <<Flash("success", "Successfully deleted.")>>,
             writes |-> <<"delete">>, response |-> Redirect(get_success_url(found))]

\* PreventDoubleSubmitMixin.form_valid without the line that marks the
\* session
prevent_double_submit_unmarked(session, super_raises) ==
    [session |-> session, flashes |-> <<>>, writes |-> <<"form_valid">>,
     response |-> IF super_raises THEN Raised("Exception") ELSE Redirect("success_url")]

\* PreventDoubleSubmitMixin.form_valid on a host view whose get_success_url
\* returns its URL and whose form_valid returns its redirect or raises
prevent_double_submit(session, super_raises) ==
    IF dget(session, "form_submitted", FALSE)
    THEN [session |-> session,
          flashes |-> <<Flash("warning", "You have already submitted this form.")>>,
          writes |-> <<>>, response |-> Redirect("success_url")]
    ELSE [session |-> [form_submitted |-> TRUE] @@ session,
          flashes |-> <<>>, writes |-> <<"form_valid">>,
          response |-> IF super_raises THEN Raised("Exception")
                       ELSE Redirect("success_url")]

\* one request to a create view or a delete view, or a session about to
\* submit to a view with PreventDoubleSubmitMixin
InitView ==
    /\ phase = "view"
    /\ \/ \E ajax, form_is_valid, pattern, params, route, save_raises \in BOOLEAN :
             view_self = [class |-> "BaseCreateView", ajax |-> ajax,
                          form_is_valid |-> form_is_valid,
                          success_url_pattern |-> pattern, success_url_params |-> params,
                          route_registered |-> route, save_raises |-> save_raises,
                          object |-> NoneV]
       \/ \E pattern, params, route, object_exists, delete_raises \in BOOLEAN :
             view_self = [class |-> "BaseDeleteView",
                          success_url_pattern |-> pattern, success_url_params |-> params,
                          route_registered |-> route, object_exists |-> object_exists,
                          delete_raises |-> delete_raises]
       \/ view_self = [class |-> "PreventDoubleSubmitMixin"]
    /\ flashes = <<>>
    /\ writes = <<>>
    /\ view_session \in {EmptyDict, [form_submitted |-> FALSE]}
    /\ view_response = Pending
    /\ handled = 0
    /\ IdleExcept("view")

\* a POST to a BaseCreateView: form_valid or form_invalid
Post ==
    /\ phase = "view"
    /\ view_self.class = "BaseCreateView"
    /\ handled = 0
    /\ LET done == IF view_self.form_is_valid
                   THEN form_valid(view_self) ELSE form_invalid(view_self)
       IN /\ flashes' = done.flashes
          /\ writes' = done.writes
          /\ view_response' = done.response
    /\ handled' = 1
    /\ UNCHANGED <<phase, view_self, view_session>>
    /\ Frame("view")

\* view.delete(request) of a BaseDeleteView
Delete ==
    /\ phase = "view"
    /\ view_self.class = "BaseDeleteView"
    /\ handled = 0
    /\ flashes' = delete(view_self).flashes
    /\ writes' = delete(view_self).writes
    /\ view_response' = delete(view_self).response
    /\ handled' = 1
    /\ UNCHANGED <<phase, view_self, view_session>>
    /\ Frame("view")

\* one more valid submission of the session to the view with
\* PreventDoubleSubmitMixin
Submit ==
    /\ phase = "view"
    /\ view_self.class = "PreventDoubleSubmitMixin"
    /\ handled < MaxSubmissions
    /\ \E super_raises \in BOOLEAN :
          LET done == prevent_double_submit(view_session, super_raises)
          IN /\ view_session' = done.session
             /\ flashes' = flashes \o done.flashes
             /\ writes' = writes \o done.writes
             /\ view_response' = done.response
    /\ handled' = handled + 1
    /\ UNCHANGED <<phase, view_self>>
    /\ Frame("view")

SpecView == InitView /\ [][Post \/ Delete \/ Submit]_vars

---------------------------------------------------------------------------
(* Properties of the form and delete views.                                *)

Handled(class) == phase = "view" /\ handled > 0 /\ view_self.class = class

Count(s, x) == Cardinality({i \in DOMAIN s : s[i] = x})
Levels == [i \in DOMAIN flashes |-> flashes[i].level]
Marked(session) == dget(session, "form_submitted", FALSE)

\* C21: BaseDeleteView.delete of a view whose success URL is configured lets
\* no exception reach the client: when the deletion fails an error message is
\* added and the response is a redirect, on success a success message is
\* added and the delete response returned.
C21_DeleteNeverRaises ==
    ( /\ Handled("BaseDeleteView")
      /\ view_self.success_url_pattern
      /\ view_self.route_registered ) =>
        /\ view_response.t = "redirect"
        /\ Levels = IF writes = <<"delete">> THEN <<"success">> ELSE <<"error">>

C28_OneFlashPerSubmission ==
    (Handled("BaseCreateView") /\ view_response.t \in {"redirect", "render", "json"}) =>
        /\ (view_self.form_is_valid /\ ~view_self.ajax)
              => writes = <<"save">> /\ Levels = <<"success">>
        /\ ~view_self.form_is_valid => Levels = <<"error">>

\* C29: when BaseCreateView answers a valid AJAX submission with the JSON
\* body success: true, the submitted object has been saved.
C29_AjaxSuccessMeansSaved ==
    ( /\ Handled("BaseCreateView")
      /\ view_self.ajax
      /\ view_self.form_is_valid
      /\ view_response.t = "json"
      /\ view_response.success )
        => writes = <<"save">>

Init ==
    \/ InitMenu
    \/ InitDashboard
    \/ InitNavigation
    \/ InitContext
    \/ InitScoped
    \/ InitSeed
    \/ InitCache
    \/ InitCall
    \/ InitDynamicMenu
    \/ InitToggle
    \/ InitView

Next ==
    \/ BuildMenuForUser
    \/ BuildWidgets
    \/ AddFavorite
    \/ RemoveFavorite
    \/ RunActiveEnrollment
    \/ RunUserProfile
    \/ GetQueryset
    \/ EnterAtomic
    \/ BuildStep
    \/ BuildStepRaises
    \/ Commit
    \/ WriteSuccess
    \/ \E c \in Callers : Get(c) \/ Produce(c) \/ Set(c)
    \/ Tick
    \/ CallFlattenDefinitions
    \/ CallGetUrl
    \/ CallGenerateBreadcrumbs
    \/ \E u \in MenuUsers : DynamicMenu(u)
    \/ \E r \in DOMAIN toggles : LoadPreference(r) \/ AddFavoriteAndSave(r)
    \/ Post
    \/ Delete
    \/ Submit

Spec == Init /\ [][Next]_vars

====
